---- MODULE Spec2Model ----
(***************************************************************************)
(* Model of grpc_core::HandshakeManager (src/core/handshaker/handshaker.cc) *)
(* and of the environment it talks to: the caller, the registered           *)
(* handshakers, the EventEngine executor and the deadline timer.            *)
(*                                                                          *)
(* Every public entry point of the manager takes mu_ for its whole body, so *)
(* each entry point is one atomic action.  A handshaker reports completion  *)
(* through Handshaker::InvokeOnHandshakeDone, which posts the continuation  *)
(* to the executor; the executor runs posted tasks in any order.            *)
(*                                                                          *)
(* The module also models the library life cycle of                         *)
(* src/core/lib/surface/init.cc (grpc_init, grpc_shutdown and the deferred  *)
(* cleanup thread) and the validation done by                               *)
(* src/core/xds/grpc/xds_route_config_parser.cc; each has its own           *)
(* specification over the variables it owns.                                *)
(***************************************************************************)
EXTENDS Integers, Sequences, FiniteSets, TLC

\* ---------------------------------------------------------------- bounds
MaxHandshakers == 3
MaxShutdownCalls == 2
MaxDoHandshakeCalls == 2   \* calls of DoHandshake by a caller that repeats it
MaxServerHandshakers == 1  \* chain length of the server-side handshakes
MaxPendingBytes == 2       \* bytes an acceptor has read ahead
MaxInitCalls == 3          \* calls of grpc_init made by the application
MaxClusters == 3           \* entries of a weighted_clusters route action
MaxPlugins == 2            \* cluster_specifier_plugins of a RouteConfiguration
MaxVirtualHosts == 1       \* virtual_hosts of a RouteConfiguration
MaxRoutes == 2             \* routes of a RouteConfiguration, over all hosts

\* ---------------------------------------------------------------- values
OK == "ok"
CancelError == "cancel"
TimedOut == "Handshake timed out"
ShutdownError == "handshaker shutdown"
HandshakerError == "bad preface"
NoError == "none"
ArgsPtr == "&args_"
NullEndpoint == "null"
CallerEndpoint == "endpoint"
WrappedEndpoint == "wrapped endpoint"

HandshakerIds == 1..MaxHandshakers
CallerErrors == {CancelError}

VARIABLES
  handshakers_,            \* registered handshakers, in registration order
  index_,                  \* cursor into handshakers_
  is_shutdown_,            \* shutdown latch
  on_handshake_done_,      \* "null" or "set": the stored terminal callback
  args_,                   \* HandshakerArgs: endpoint, read_buffer, exit_early,
                           \* trace_node
  deadline_timer_handle_,  \* state of the deadline timer task
  executor,                \* tasks posted with EventEngine::Run, not yet run
  hs,                      \* per handshaker: "idle", "active", "finished";
                           \* "blocked"/"aborted" after an inline completion
  hs_shutdown,             \* per handshaker: error of the Shutdown it received
  started,                 \* the caller has called DoHandshake
  shutdown_calls,          \* number of Shutdown calls made by the caller
  on_done_results,         \* results the terminal callback was invoked with
  log,                     \* history of the manager's calls and completions
  refs,                    \* the manager's reference count (RefCounted)
  caller_ref,              \* the caller still holds its reference
  acceptor,                \* the grpc_tcp_server_acceptor given to DoHandshake
  check_failed,            \* a CHECK failed: the process was aborted
  g_initializations,       \* init.cc: outstanding initializations
  g_shutting_down,         \* init.cc: a shutdown has started and not finished
  cleanup_threads,         \* cleanup threads spawned by grpc_shutdown, not run
  lifecycle,               \* history of subsystem start-ups and tear-downs
  grpc_init_calls,         \* calls of grpc_init made so far
  grpc_shutdown_calls,     \* calls of grpc_shutdown(_blocking) made so far
  waiter,                  \* a thread in grpc_maybe_wait_for_async_shutdown
  xds_rls_enabled,         \* xds: what XdsRlsEnabled() returns in this process
  serialized_resource,     \* xds: the bytes given to Decode
  decode_result,           \* xds: the DecodeResult it returned
  route_action_proto,      \* xds: the input of RouteActionParse
  route_action             \* xds: what RouteActionParse returned and recorded

mgrVars == <<handshakers_, index_, is_shutdown_, on_handshake_done_, args_,
             deadline_timer_handle_, refs>>
envVars == <<executor, hs, hs_shutdown, started, shutdown_calls,
             on_done_results, log, caller_ref, acceptor, check_failed>>
surfaceVars == <<g_initializations, g_shutting_down, cleanup_threads,
                 lifecycle, grpc_init_calls, grpc_shutdown_calls, waiter>>
xdsVars == <<xds_rls_enabled, serialized_resource, decode_result,
             route_action_proto, route_action>>
\* What the handshake manager and its environment never touch.
libraryVars == <<surfaceVars, xdsVars>>
\* What the library life cycle and the xDS parser never touch.
handshakeVars == <<mgrVars, envVars>>
vars == <<handshakers_, index_, is_shutdown_, on_handshake_done_, args_,
          deadline_timer_handle_, executor, hs, hs_shutdown, started,
          shutdown_calls, on_done_results, log, refs, caller_ref, acceptor,
          check_failed, g_initializations, g_shutting_down, cleanup_threads,
          lifecycle, grpc_init_calls, grpc_shutdown_calls, waiter,
          xds_rls_enabled, serialized_resource, decode_result,
          route_action_proto, route_action>>

\* ---------------------------------------------------------------- helpers
Range(s) == {s[i] : i \in 1..Len(s)}

RemoveAt(s, i) == [j \in 1..(Len(s) - 1) |-> IF j < i THEN s[j] ELSE s[j + 1]]

\* Events of the history log.
\* "CallNext": CallNextHandshakerLocked was entered for the completion of
\* handshaker h (0: the initial call from DoHandshake) with status st, seeing
\* is_shutdown_ = sd and args_.exit_early = ee.
EvCallNext(h, st, sd, ee) ==
  [ev |-> "CallNext", h |-> h, st |-> st, sd |-> sd, ee |-> ee]
\* "DoHandshake": the manager called DoHandshake on handshaker h.
EvDoHandshake(h) ==
  [ev |-> "DoHandshake", h |-> h, st |-> NoError, sd |-> FALSE, ee |-> FALSE]
\* "ShutdownCalled": Shutdown(e) found the latch unset and set it.
EvShutdownCalled(e) ==
  [ev |-> "ShutdownCalled", h |-> 0, st |-> e, sd |-> FALSE, ee |-> FALSE]
\* "Shutdown": the manager called Shutdown(e) on handshaker h.
EvShutdown(h, e) ==
  [ev |-> "Shutdown", h |-> h, st |-> e, sd |-> FALSE, ee |-> FALSE]
\* "Scheduled": the terminal branch posted on_handshake_done with result r.
EvScheduled(r) ==
  [ev |-> "Scheduled", h |-> 0, st |-> r, sd |-> FALSE, ee |-> FALSE]

\* acceptor == nullptr.
NullAcceptor ==
  [present |-> FALSE, external_connection |-> FALSE,
   has_pending_data |-> FALSE, pending_data |-> <<>>]

\* The manager after construction and its environment before any call.
InitHandshake ==
  /\ handshakers_ = <<>>
  /\ index_ = 0
  /\ is_shutdown_ = FALSE
  /\ on_handshake_done_ = "null"
  /\ args_ = [endpoint |-> NullEndpoint, read_buffer |-> <<>>,
              exit_early |-> FALSE,
              trace_node |-> [committed |-> FALSE, failed |-> NoError,
                              shutdown |-> NoError]]
  /\ refs = 1
  /\ caller_ref = TRUE
  /\ acceptor = NullAcceptor
  /\ check_failed = FALSE
  /\ deadline_timer_handle_ = "none"
  /\ executor = <<>>
  /\ hs = [h \in HandshakerIds |-> "idle"]
  /\ hs_shutdown = [h \in HandshakerIds |-> NoError]
  /\ started = FALSE
  /\ shutdown_calls = 0
  /\ on_done_results = <<>>
  /\ log = <<>>

\* init.cc:64-70: the static initializers; no thread has called in yet.
InitSurface ==
  /\ g_initializations = 0
  /\ g_shutting_down = FALSE
  /\ cleanup_threads = 0
  /\ lifecycle = <<>>
  /\ grpc_init_calls = 0
  /\ grpc_shutdown_calls = 0
  /\ waiter = "idle"

\* The life cycle before any thread has called in, for the specifications
\* of the other components.
InitIdle == InitHandshake /\ InitSurface

\* Bytes that are not a serialized RouteConfiguration.
Malformed == [well_formed |-> FALSE]

\* A RouteAction proto with none of the cluster specifiers the parser knows.
OtherAction == [kind |-> "other", name |-> "", clusters |-> <<>>]

\* The function has not returned.
NotReturned == [returned |-> FALSE]

\* The parser before it is called, for the specifications of the other
\* components.
InitXdsIdle ==
  /\ xds_rls_enabled = TRUE
  /\ serialized_resource = Malformed
  /\ decode_result = NotReturned
  /\ route_action_proto = OtherAction
  /\ route_action = NotReturned

Init == InitIdle /\ InitXdsIdle

\* ------------------------------------------------- CallNextHandshakerLocked
\* Mutant: the latch is not part of the terminal condition.
IsTerminal_IgnoresShutdown(error, args) ==
  \/ error # OK
  \/ args.exit_early
  \/ index_ = Len(handshakers_)

\* Mutant: a non-ok status does not end the chain.
IsTerminal_IgnoresError(error, args) ==
  \/ is_shutdown_
  \/ args.exit_early
  \/ index_ = Len(handshakers_)

\* Mutant: exit_early does not end the chain.
IsTerminal_IgnoresExitEarly(error, args) ==
  \/ error # OK
  \/ is_shutdown_
  \/ index_ = Len(handshakers_)

\* The condition of the terminal branch.
IsTerminal(error, args) ==
  \/ error # OK
  \/ is_shutdown_
  \/ args.exit_early
  \/ index_ = Len(handshakers_)

\* Mutant: the latch overrides a handshaker's own error.
TerminalError_OverridesError(error) ==
  IF is_shutdown_ THEN ShutdownError ELSE error

\* Mutant: an ok completion stays ok although the latch is set.
TerminalError_NoSynthesis(error) == error

\* Mutant: exit_early keeps an ok completion ok although the latch is set.
TerminalError_ExitEarlyWins(error) ==
  IF error = OK /\ is_shutdown_ /\ ~args_.exit_early THEN ShutdownError
  ELSE error

\* An ok completion observed together with the latch becomes an error.
TerminalError(error) ==
  IF error = OK /\ is_shutdown_ THEN ShutdownError ELSE error

\* Mutant: the endpoint is dropped on every terminal path.
TerminalEndpoint_AlwaysReset(error, args) == NullEndpoint

\* Mutant: the endpoint is never dropped.
TerminalEndpoint_NeverReset(error, args) == args.endpoint

\* ... and the endpoint is dropped in that case only.
TerminalEndpoint(error, args) ==
  IF error = OK /\ is_shutdown_ THEN NullEndpoint ELSE args.endpoint

\* The trace node after the terminal branch: `err` is the error after
\* TerminalError.  The failure is logged when err is not ok; Commit() is
\* called on every path.
TerminalTraceNode(err, tn) ==
  [tn EXCEPT !.failed = IF err # OK THEN err ELSE tn.failed,
             !.committed = TRUE]

\* EventEngine::Cancel: a task that has not started is cancelled; one that
\* has already started (or finished) is not affected.
Cancel(timer) == IF timer = "armed" THEN "cancelled" ELSE timer

\* Mutant: the terminal branch does not cancel the deadline timer.
TerminalTimer_NotCancelled(timer) == timer

\* args_.event_engine->Cancel(deadline_timer_handle_) in the terminal branch.
TerminalTimer(timer) == Cancel(timer)

\* Mutant: the terminal branch leaves the latch as it found it.
TerminalLatch_Unset == FALSE

\* The value the terminal branch assigns to is_shutdown_.
TerminalLatch == TRUE

\* Mutant: the error is not moved into result.
TerminalResult_AlwaysArgs(err) == ArgsPtr

\* absl::StatusOr<HandshakerArgs*> result.
TerminalResult(err) == IF err # OK THEN err ELSE ArgsPtr

\* Mutant: the closure is only posted for an ok result.
PostOnDone_OnlyOk(ex, cb, result) ==
  IF result = ArgsPtr
  THEN Append(ex, [kind |-> "on_done", cb |-> cb, h |-> 0, status |-> result,
                   self |-> FALSE])
  ELSE ex

\* EventEngine::Run of the closure that owns on_handshake_done and result.
\* `self` tells whether a closure captured a reference to the manager: this
\* one captures on_handshake_done and result only.
PostOnDone(ex, cb, result) ==
  Append(ex, [kind |-> "on_done", cb |-> cb, h |-> 0, status |-> result,
              self |-> FALSE])

\* The reference count after the terminal branch: a deadline closure that
\* Cancel stops before it started is destroyed, with the reference it holds.
TerminalRefs(rc, timer) ==
  IF TerminalTimer(timer) # timer THEN rc - 1 ELSE rc

\* The reference count after the non-terminal branch: [self = Ref()].
ContinuationRefs(rc) == rc + 1

\* Mutant: the terminal branch calls on_handshake_done itself, under mu_.
InlineCalls_Direct(cb, result) == <<result>>

\* The results on_handshake_done is called with by the terminal branch itself:
\* none, the callback is moved into the posted closure.
InlineCalls(cb, result) == <<>>

\* The handshaker invoked by the non-terminal branch (0-based index_).
NextHandshaker == handshakers_[index_ + 1]

\* Mutant: the cursor is not advanced.
NextIndex_Stuck == index_

\* Mutant: the cursor is advanced twice when there is room.
NextIndex_Skip ==
  IF index_ + 2 <= Len(handshakers_) THEN index_ + 2 ELSE index_ + 1

\* ++index_
NextIndex == index_ + 1

\* Mutant: the non-terminal branch does not wait for the continuation and
\* also starts the handshaker after the next one.
InvokeNext_NoWait(args, cb, timer, ex, lg, rc) ==
  LET last == IF index_ + 2 <= Len(handshakers_) THEN index_ + 2
              ELSE index_ + 1
      called == {handshakers_[k] : k \in (index_ + 1)..last}
  IN /\ index_' = last
     /\ hs' = [g \in HandshakerIds |-> IF g \in called THEN "active" ELSE hs[g]]
     /\ log' = lg \o [k \in 1..(last - index_) |->
                        EvDoHandshake(handshakers_[index_ + k])]
     /\ args_' = args
     /\ on_handshake_done_' = cb
     /\ deadline_timer_handle_' = timer
     /\ executor' = ex
     /\ refs' = rc + (last - index_)
     /\ UNCHANGED <<is_shutdown_, on_done_results>>

\* The non-terminal branch: call the next handshaker, handing it the
\* continuation that re-enters CallNextHandshakerLocked.
InvokeNext(args, cb, timer, ex, lg, rc) ==
  /\ index_' = NextIndex
  /\ hs' = [hs EXCEPT ![NextHandshaker] = "active"]
  /\ log' = Append(lg, EvDoHandshake(NextHandshaker))
  /\ args_' = args
  /\ on_handshake_done_' = cb
  /\ deadline_timer_handle_' = timer
  /\ executor' = ex
  /\ refs' = ContinuationRefs(rc)
  /\ UNCHANGED <<is_shutdown_, on_done_results>>

\* `args`, `cb`, `timer`, `ex` and `rc` are the values of args_,
\* on_handshake_done_, deadline_timer_handle_, executor and the reference
\* count at the call; h is the handshaker whose continuation makes the call
\* (0 for the call from DoHandshake).
CallNextHandshakerLocked(h, error, args, cb, timer, ex, rc) ==
  LET lg == Append(log, EvCallNext(h, error, is_shutdown_, args.exit_early)) IN
  IF IsTerminal(error, args)
  THEN LET err == TerminalError(error)
           result == TerminalResult(err)
       IN /\ args_' = [args EXCEPT
                         !.endpoint = TerminalEndpoint(error, args),
                         !.trace_node = TerminalTraceNode(err, args.trace_node)]
          /\ deadline_timer_handle_' = TerminalTimer(timer)
          /\ is_shutdown_' = (is_shutdown_ \/ TerminalLatch)
          /\ on_handshake_done_' = "null"
          /\ executor' = PostOnDone(ex, cb, result)
          /\ on_done_results' = on_done_results \o InlineCalls(cb, result)
          /\ log' = Append(lg, EvScheduled(result))
          /\ refs' = TerminalRefs(rc, timer)
          /\ UNCHANGED <<index_, hs>>
  ELSE InvokeNext(args, cb, timer, ex, lg, rc)

\* ------------------------------------------------------------------- mu_
\* What locking mu_ does to a thread that already holds it: the mutex is not
\* reentrant, so the thread waits for itself for ever, or the process is
\* aborted where the build detects the self-deadlock.
RelockOutcomes == {"blocked", "aborted"}

\* The process has not been aborted, by a detected self-deadlock or by a
\* failed CHECK.
Alive == ~check_failed /\ \A h \in HandshakerIds : hs[h] # "aborted"

\* Mutant: mu_ is not taken.
MuFree_NoLock == Alive

\* MutexLock lock(&mu_) succeeds: no thread is stuck holding mu_.
MuFree == Alive /\ \A h \in HandshakerIds : hs[h] \notin RelockOutcomes

\* ------------------------------------------------------ public operations
\* The body of HandshakeManager::Add: it takes mu_ and appends, whatever the
\* state of the handshake.
AddLocked(h) ==
  /\ caller_ref
  /\ MuFree
  /\ Len(handshakers_) < MaxHandshakers
  /\ h \notin Range(handshakers_)
  /\ handshakers_' = Append(handshakers_, h)
  /\ UNCHANGED <<index_, is_shutdown_, on_handshake_done_, args_,
                 deadline_timer_handle_, refs>>
  /\ UNCHANGED envVars
  /\ UNCHANGED libraryVars

\* HandshakeManager::Add, called before DoHandshake.
Add(h) == ~started /\ AddLocked(h)

\* HandshakeManager::Add, called after DoHandshake (misuse).
LateAdd(h) == started /\ AddLocked(h)

\* The acceptors a caller may pass: none, or one with or without
\* external_connection and with or without pending_data.
PendingData == {[i \in 1..n |-> i] : n \in 0..MaxPendingBytes}
Acceptors ==
  {NullAcceptor} \cup
  {a \in [present : {TRUE}, external_connection : BOOLEAN,
          has_pending_data : BOOLEAN, pending_data : PendingData] :
     a.has_pending_data \/ a.pending_data = <<>>}

\* Mutant: the swap does not depend on external_connection.
SwapsPendingData_IgnoresExternal(acc) ==
  acc.present /\ acc.has_pending_data

\* acceptor != nullptr && acceptor->external_connection &&
\* acceptor->pending_data != nullptr
SwapsPendingData(acc) ==
  acc.present /\ acc.external_connection /\ acc.has_pending_data

\* grpc_slice_buffer_swap, seen from args_.read_buffer ...
ReadBufferAfterSwap(read_buffer, acc) ==
  IF SwapsPendingData(acc) THEN acc.pending_data ELSE read_buffer

\* ... and from the acceptor's pending_data.
AcceptorAfterSwap(read_buffer, acc) ==
  IF SwapsPendingData(acc) THEN [acc EXCEPT !.pending_data = read_buffer]
  ELSE acc

\* The body of HandshakeManager::DoHandshake after the CHECK.  The reference
\* count passed on counts the deadline closure's reference; the local `self`
\* is released on return.
DoHandshakeLocked(endpoint, acc) ==
  /\ started' = TRUE
  /\ acceptor' = AcceptorAfterSwap(args_.read_buffer, acc)
  /\ CallNextHandshakerLocked(
       0, OK,
       [args_ EXCEPT !.endpoint = endpoint,
                     !.trace_node = [committed |-> FALSE, failed |-> NoError,
                                     shutdown |-> NoError],
                     !.read_buffer = ReadBufferAfterSwap(@, acc)],
       "set", "armed", executor, refs + 1)
  /\ UNCHANGED <<handshakers_, hs_shutdown, shutdown_calls, caller_ref,
                 check_failed>>
  /\ UNCHANGED libraryVars

\* CHECK_EQ(index_, 0u)
CheckIndexZero == index_ = 0

\* HandshakeManager::DoHandshake, called once by the caller.
DoHandshake(endpoint, acc) ==
  /\ caller_ref
  /\ MuFree
  /\ ~started
  /\ CheckIndexZero
  /\ DoHandshakeLocked(endpoint, acc)

\* The number of times the body of DoHandshake has run.
DoHandshakeCalls ==
  Cardinality({p \in 1..Len(log) : log[p].ev = "CallNext" /\ log[p].h = 0})

\* HandshakeManager::DoHandshake, called again on the same manager (misuse):
\* the CHECK aborts the process, or the body runs a second time.
DoHandshakeAgain(endpoint, acc) ==
  /\ caller_ref
  /\ MuFree
  /\ started
  /\ DoHandshakeCalls < MaxDoHandshakeCalls
  /\ IF CheckIndexZero
     THEN DoHandshakeLocked(endpoint, acc)
     ELSE /\ check_failed' = TRUE
          /\ UNCHANGED <<handshakers_, index_, is_shutdown_,
                         on_handshake_done_, args_, deadline_timer_handle_,
                         executor, hs, hs_shutdown, started, shutdown_calls,
                         on_done_results, log, refs, caller_ref, acceptor>>
          /\ UNCHANGED libraryVars

\* Mutant: Shutdown does not test the latch.
ShutdownGuard_Always == TRUE

\* The guard of Shutdown's body.
ShutdownGuard == ~is_shutdown_

\* Mutant: off by one, the first handshaker is never shut down.
ShutdownForwards_OffByOne == index_ > 1

\* Whether Shutdown forwards to a handshaker.
ShutdownForwards == index_ > 0

\* Mutant: Shutdown always goes to the first handshaker.
ShutdownTarget_First == handshakers_[1]

\* The handshaker Shutdown forwards to, handshakers_[index_ - 1] (0-based).
ShutdownTarget == handshakers_[index_]

\* Handshaker::Shutdown as seen from outside: the handshaker remembers the
\* first error it was shut down with.
HandshakerShutdown(h, error) ==
  [hs_shutdown EXCEPT ![h] = IF @ = NoError THEN error ELSE @]

\* Mutant: Shutdown commits the trace node.
ShutdownTraceNode_Commits(error, tn) ==
  [tn EXCEPT !.shutdown = error, !.committed = TRUE]

\* GRPC_CHANNELZ_LOG(args_.trace_node) << "Shutdown called: " << error
ShutdownTraceNode(error, tn) == [tn EXCEPT !.shutdown = error]

\* Mutant: Shutdown releases the endpoint.
ShutdownArgs_ReleasesEndpoint(error, args) ==
  [args EXCEPT !.trace_node = ShutdownTraceNode(error, args.trace_node),
               !.endpoint = NullEndpoint]

\* What Shutdown does to args_: it logs to the trace node.
ShutdownArgs(error, args) ==
  [args EXCEPT !.trace_node = ShutdownTraceNode(error, args.trace_node)]

\* The body of HandshakeManager::Shutdown, under mu_.
ShutdownLocked(error) ==
  IF ShutdownGuard
  THEN /\ is_shutdown_' = TRUE
       /\ args_' = ShutdownArgs(error, args_)
       /\ IF ShutdownForwards
          THEN /\ hs_shutdown' = HandshakerShutdown(ShutdownTarget, error)
               /\ log' = log \o <<EvShutdownCalled(error),
                                  EvShutdown(ShutdownTarget, error)>>
          ELSE /\ log' = Append(log, EvShutdownCalled(error))
               /\ UNCHANGED hs_shutdown
  ELSE UNCHANGED <<is_shutdown_, args_, hs_shutdown, log>>

\* HandshakeManager::Shutdown called by the caller.
Shutdown(error) ==
  /\ caller_ref
  /\ MuFree
  /\ shutdown_calls < MaxShutdownCalls
  /\ shutdown_calls' = shutdown_calls + 1
  /\ ShutdownLocked(error)
  /\ UNCHANGED <<handshakers_, index_, on_handshake_done_,
                 deadline_timer_handle_, executor, hs, started,
                 on_done_results, refs, caller_ref, acceptor, check_failed>>
  /\ UNCHANGED libraryVars

\* The caller drops its reference to the manager; the manager is destroyed
\* when the count reaches zero.
Unref ==
  /\ Alive
  /\ caller_ref
  /\ caller_ref' = FALSE
  /\ refs' = refs - 1
  /\ UNCHANGED <<handshakers_, index_, is_shutdown_, on_handshake_done_, args_,
                 deadline_timer_handle_, executor, hs, hs_shutdown, started,
                 shutdown_calls, on_done_results, log, acceptor, check_failed>>
  /\ UNCHANGED libraryVars

\* ------------------------------------------------------------ deadline timer
\* The timer task armed by DoHandshake starts running.
TimerStart ==
  /\ Alive
  /\ deadline_timer_handle_ = "armed"
  /\ deadline_timer_handle_' = "running"
  /\ UNCHANGED <<handshakers_, index_, is_shutdown_, on_handshake_done_, args_,
                 refs>>
  /\ UNCHANGED envVars
  /\ UNCHANGED libraryVars

\* The timer task gets mu_ and runs Shutdown("Handshake timed out"), then
\* releases its reference (self.reset()).
TimerRun ==
  /\ MuFree
  /\ deadline_timer_handle_ = "running"
  /\ deadline_timer_handle_' = "fired"
  /\ ShutdownLocked(TimedOut)
  /\ refs' = refs - 1
  /\ UNCHANGED <<handshakers_, index_, on_handshake_done_, executor, hs,
                 started, shutdown_calls, on_done_results, caller_ref,
                 acceptor, check_failed>>
  /\ UNCHANGED libraryVars

\* --------------------------------------------------------------- handshakers
\* Statuses handshaker h may complete with: ok, its own error, or the error
\* of the Shutdown it received.
CompletionStatuses(h) ==
  {OK, HandshakerError} \cup ({hs_shutdown[h]} \ {NoError})

\* Endpoints handshaker h may leave in args: on success the current one or a
\* wrapper around it, on failure the current one or none.
CompletionEndpoints(st) ==
  IF st = OK THEN {args_.endpoint, WrappedEndpoint}
  ELSE {args_.endpoint, NullEndpoint}

\* What a handshaker leaves in args->read_buffer: what it found, or nothing
\* when it consumed the bytes read ahead.
CompletionReadBuffers == {args_.read_buffer, <<>>}

\* An invoked handshaker finishes: it writes args and reports its status with
\* Handshaker::InvokeOnHandshakeDone, which posts the continuation (the
\* closure that holds the manager's reference).
HandshakerFinish(h, st, exit_early, endpoint, read_buffer) ==
  /\ Alive
  /\ hs[h] = "active"
  /\ st \in CompletionStatuses(h)
  /\ endpoint \in CompletionEndpoints(st)
  /\ read_buffer \in CompletionReadBuffers
  /\ hs' = [hs EXCEPT ![h] = "finished"]
  /\ args_' = [args_ EXCEPT !.exit_early = @ \/ exit_early,
                            !.endpoint = endpoint,
                            !.read_buffer = read_buffer]
  /\ executor' = Append(executor, [kind |-> "continuation", cb |-> "set",
                                   h |-> h, status |-> st, self |-> TRUE])
  /\ UNCHANGED <<handshakers_, index_, is_shutdown_, on_handshake_done_,
                 deadline_timer_handle_, hs_shutdown, started, shutdown_calls,
                 on_done_results, log, refs, caller_ref, acceptor,
                 check_failed>>
  /\ UNCHANGED libraryVars

\* A handshaker calls its continuation directly, on the stack of the
\* manager's DoHandshake call on it, instead of posting it: the continuation's
\* MutexLock finds mu_ held by its own thread (the manager calls DoHandshake
\* under mu_).  The manager is still inside that call: the last thing it did
\* was to call DoHandshake on h.
InlineCompletion(h, st, exit_early, endpoint, outcome) ==
  /\ MuFree
  /\ hs[h] = "active"
  /\ Len(log) > 0
  /\ log[Len(log)] = EvDoHandshake(h)
  /\ st \in CompletionStatuses(h)
  /\ endpoint \in CompletionEndpoints(st)
  /\ outcome \in RelockOutcomes
  /\ hs' = [hs EXCEPT ![h] = outcome]
  /\ args_' = [args_ EXCEPT !.exit_early = @ \/ exit_early,
                            !.endpoint = endpoint]
  /\ UNCHANGED <<handshakers_, index_, is_shutdown_, on_handshake_done_,
                 deadline_timer_handle_, executor, hs_shutdown, started,
                 shutdown_calls, on_done_results, log, refs, caller_ref,
                 acceptor, check_failed>>
  /\ UNCHANGED libraryVars

\* ------------------------------------------------------------------ executor
\* The executor runs a handshaker's continuation: lock mu_, advance the chain.
\* The closure is destroyed once it has run, which releases its reference.
RunContinuation(i) ==
  /\ MuFree
  /\ i \in 1..Len(executor)
  /\ executor[i].kind = "continuation"
  /\ CallNextHandshakerLocked(
       executor[i].h, executor[i].status, args_, on_handshake_done_,
       deadline_timer_handle_, RemoveAt(executor, i), refs - 1)
  /\ UNCHANGED <<handshakers_, hs_shutdown, started, shutdown_calls,
                 caller_ref, acceptor, check_failed>>
  /\ UNCHANGED libraryVars

\* The executor runs the terminal closure: on_handshake_done(result).
RunOnDone(i) ==
  /\ Alive
  /\ i \in 1..Len(executor)
  /\ executor[i].kind = "on_done"
  /\ executor[i].cb = "set"
  /\ on_done_results' = Append(on_done_results, executor[i].status)
  /\ executor' = RemoveAt(executor, i)
  /\ UNCHANGED mgrVars
  /\ UNCHANGED <<hs, hs_shutdown, started, shutdown_calls, log, caller_ref,
                 acceptor, check_failed>>
  /\ UNCHANGED libraryVars

\* What handshaker h may do when it finishes.
Finish(h) ==
  \E st \in {OK, HandshakerError, CancelError, TimedOut}, ee \in BOOLEAN,
     ep \in {CallerEndpoint, WrappedEndpoint, NullEndpoint},
     rb \in PendingData :
    HandshakerFinish(h, st, ee, ep, rb)

\* Everything that can happen once the handshakers are registered, apart from
\* the call of DoHandshake itself.
Progress ==
  \/ \E e \in CallerErrors : Shutdown(e)
  \/ TimerStart
  \/ TimerRun
  \/ \E h \in HandshakerIds : Finish(h)
  \/ \E i \in 1..Len(executor) : RunContinuation(i)
  \/ \E i \in 1..Len(executor) : RunOnDone(i)

\* A client-side handshake: there is no acceptor, `acceptor` stays null.
Next ==
  \/ \E h \in HandshakerIds : Add(h)
  \/ \E ep \in {CallerEndpoint} : DoHandshake(ep, acceptor)
  \/ Progress

Spec == Init /\ [][Next]_vars

\* Every invoked handshaker eventually reports, and the executor eventually
\* runs what was posted to it.
Fairness ==
  /\ \A h \in HandshakerIds : WF_vars(Finish(h))
  /\ WF_vars(\E i \in 1..Len(executor) : RunContinuation(i))
  /\ WF_vars(\E i \in 1..Len(executor) : RunOnDone(i))

FairSpec == Init /\ [][Next]_vars /\ Fairness

\* The same system with handshakers that may also complete inline.
NextInline ==
  \/ Next
  \/ \E h \in HandshakerIds, st \in {OK, HandshakerError},
        ee \in BOOLEAN, ep \in {CallerEndpoint, WrappedEndpoint, NullEndpoint},
        outcome \in RelockOutcomes :
       InlineCompletion(h, st, ee, ep, outcome)

FairSpecInline == Init /\ [][NextInline]_vars /\ Fairness

\* The same system with a caller that may drop its reference at any time.
NextRefs == Next \/ Unref

SpecRefs == Init /\ [][NextRefs]_vars

\* The same system with a caller that calls Add after DoHandshake and
\* DoHandshake more than once.
NextMisuse ==
  \/ Next
  \/ \E h \in HandshakerIds : LateAdd(h)
  \/ \E ep \in {CallerEndpoint} : DoHandshakeAgain(ep, acceptor)

SpecMisuse == Init /\ [][NextMisuse]_vars

\* The server accepts a connection: the acceptor the caller will pass to
\* DoHandshake comes into being.
Accept(acc) ==
  /\ Alive
  /\ ~started
  /\ acceptor = NullAcceptor
  /\ acc # NullAcceptor
  /\ acceptor' = acc
  /\ UNCHANGED mgrVars
  /\ UNCHANGED <<executor, hs, hs_shutdown, started, shutdown_calls,
                 on_done_results, log, caller_ref, check_failed>>
  /\ UNCHANGED libraryVars

\* A server-side handshake: the caller passes the acceptor of the connection.
NextServer ==
  \/ \E acc \in Acceptors : Accept(acc)
  \/ \E h \in HandshakerIds :
       Len(handshakers_) < MaxServerHandshakers /\ Add(h)
  \/ \E ep \in {CallerEndpoint} : DoHandshake(ep, acceptor)
  \/ Progress

SpecServer == Init /\ [][NextServer]_vars

\* ------------------------------------------------------- history operators
Positions(ev) == {p \in 1..Len(log) : log[p].ev = ev}

\* Positions of the manager's DoHandshake / Shutdown calls on handshaker h and
\* of the processing of h's completion.
Invoked(h) == {p \in Positions("DoHandshake") : log[p].h = h}
Forwarded(h) == {p \in Positions("Shutdown") : log[p].h = h}
Completed(h) == {p \in Positions("CallNext") : log[p].h = h}

\* Handshakers whose DoHandshake was called and whose completion has not yet
\* been processed by CallNextHandshakerLocked.
InProgress ==
  {h \in HandshakerIds : Cardinality(Invoked(h)) > Cardinality(Completed(h))}

OnDoneScheduled == Positions("Scheduled") # {}
OnDoneCalls == Len(on_done_results)

\* A step that runs the body of HandshakeManager::Shutdown: a call by the
\* caller, or the deadline task.
ShutdownStep ==
  \/ shutdown_calls' = shutdown_calls + 1
  \/ deadline_timer_handle_ = "running" /\ deadline_timer_handle_' = "fired"

\* ------------------------------------------------------------------ claims

\* C1: on_done is invoked at most once under every interleaving of handshaker
\* completions, Shutdown calls and deadline-timer fires; and when every invoked
\* handshaker reports and the executor runs what is posted, a started
\* handshake leads to exactly one invocation of on_done.
C1_OnDoneExactlyOnce ==
  /\ [](OnDoneCalls <= 1)
  /\ (started ~> (OnDoneCalls = 1))

\* on_done has run after a handshaker was invoked and both a caller's Shutdown
\* and the deadline task have run.
C1_Witness ==
  /\ OnDoneCalls = 1
  /\ index_ > 0
  /\ shutdown_calls > 0
  /\ deadline_timer_handle_ = "fired"

\* C2: once the terminal branch has scheduled on_done, the manager calls
\* neither DoHandshake nor Shutdown on any handshaker.
C2_NoCallAfterScheduled ==
  \A p \in Positions("Scheduled") : \A q \in (p + 1)..Len(log) :
    log[q].ev \notin {"DoHandshake", "Shutdown"}

\* The terminal branch ran with a handshaker invoked and the latch unset, and
\* afterwards both the caller's Shutdown calls and the deadline task ran:
\* nothing was forwarded.
C2_Witness ==
  /\ OnDoneScheduled
  /\ index_ > 0
  /\ Positions("ShutdownCalled") = {}
  /\ shutdown_calls = MaxShutdownCalls
  /\ deadline_timer_handle_ = "fired"

\* C3: at most one handshaker is in progress.
C3_AtMostOneInProgress == Cardinality(InProgress) <= 1

\* The second handshaker is in progress after the first one completed.
C3_Witness ==
  /\ index_ = 2
  /\ InProgress = {handshakers_[2]}
  /\ Completed(handshakers_[1]) # {}

\* C4: in a state where is_shutdown_ is true, no step makes the manager call
\* DoHandshake on a handshaker.
C4_NoInvocationOnceShutdown ==
  [][is_shutdown_ => Positions("DoHandshake")' = Positions("DoHandshake")]_vars

\* A handshaker completed ok with handshakers still to run, but the latch was
\* set: the chain ended there.
C4_Witness ==
  /\ index_ > 0
  /\ index_ < Len(handshakers_)
  /\ \E p \in Positions("CallNext") :
       log[p].h # 0 /\ log[p].st = OK /\ log[p].sd /\ ~log[p].ee

\* C5: handshakers are invoked in registration order, each at most once, and
\* each only after the completion of every earlier one has been processed.
C5_RegistrationOrder ==
  \A j \in 1..Len(handshakers_) :
    /\ Cardinality(Invoked(handshakers_[j])) <= 1
    /\ \A q \in Invoked(handshakers_[j]) : \A i \in 1..(j - 1) :
         \E p \in Invoked(handshakers_[i]) :
           \E c \in Completed(handshakers_[i]) : p < c /\ c < q

\* The third handshaker was invoked, with ids registered out of numeric order.
C5_Witness ==
  /\ Len(handshakers_) = 3
  /\ handshakers_[1] > handshakers_[3]
  /\ Invoked(handshakers_[3]) # {}

\* C6: a handshaker's non-ok completion ends the chain: the terminal branch
\* runs in the same step with exactly that status as its result, on_done
\* receives that status and not the args pointer, and no handshaker is invoked
\* afterwards.
C6_ErrorShortCircuits ==
  \A p \in Positions("CallNext") :
    (log[p].h # 0 /\ log[p].st # OK) =>
      /\ p < Len(log)
      /\ log[p + 1] = EvScheduled(log[p].st)
      /\ \A q \in (p + 1)..Len(log) : log[q].ev # "DoHandshake"
      /\ \A k \in 1..Len(on_done_results) : on_done_results[k] = log[p].st

\* A handshaker that is not the last one failed, with the latch unset, and
\* on_done has run.
C6_Witness ==
  /\ OnDoneCalls = 1
  /\ index_ < Len(handshakers_)
  /\ \E p \in Positions("CallNext") :
       log[p].h # 0 /\ log[p].st = HandshakerError /\ ~log[p].sd

\* Every entry of CallNextHandshakerLocked so far saw an ok status, no
\* exit_early and no shutdown.
AllOkSoFar ==
  \A p \in Positions("CallNext") :
    log[p].st = OK /\ ~log[p].ee /\ ~log[p].sd

\* C7: when the terminal branch is reached and every entry of the chain saw an
\* ok status, no exit_early and no shutdown, the result is the args pointer,
\* every registered handshaker was invoked and completed, index_ is the number
\* of handshakers and args_.endpoint is non-null.
C7_AllOkSucceeds ==
  (OnDoneScheduled /\ AllOkSoFar) =>
    /\ \A p \in Positions("Scheduled") : log[p].st = ArgsPtr
    /\ \A k \in 1..Len(on_done_results) : on_done_results[k] = ArgsPtr
    /\ index_ = Len(handshakers_)
    /\ \A j \in 1..Len(handshakers_) : Completed(handshakers_[j]) # {}
    /\ args_.endpoint # NullEndpoint

\* Three handshakers all completed ok and on_done has run.
C7_Witness ==
  /\ AllOkSoFar
  /\ OnDoneCalls = 1
  /\ Len(handshakers_) = 3
  /\ args_.endpoint = WrappedEndpoint

\* The empty chain succeeds as well.
C7_WitnessEmpty ==
  /\ AllOkSoFar
  /\ OnDoneCalls = 1
  /\ Len(handshakers_) = 0

\* C8: when a handshaker has set exit_early and its ok completion is processed
\* with the latch unset, the terminal branch runs in the same step with the
\* args pointer as its result, on_done receives the args pointer and no later
\* handshaker is invoked.
C8_ExitEarlySucceeds ==
  \A p \in Positions("CallNext") :
    (log[p].h # 0 /\ log[p].st = OK /\ log[p].ee /\ ~log[p].sd) =>
      /\ p < Len(log)
      /\ log[p + 1] = EvScheduled(ArgsPtr)
      /\ \A q \in (p + 1)..Len(log) : log[q].ev # "DoHandshake"
      /\ \A k \in 1..Len(on_done_results) : on_done_results[k] = ArgsPtr

\* The first of several handshakers exited early and on_done has run.
C8_Witness ==
  /\ OnDoneCalls = 1
  /\ index_ = 1
  /\ Len(handshakers_) > 1
  /\ \E p \in Positions("CallNext") :
       log[p].h # 0 /\ log[p].st = OK /\ log[p].ee /\ ~log[p].sd

\* C9: a run of Shutdown's body with is_shutdown_ already true changes no
\* manager state and calls no handshaker; and no handshaker receives Shutdown
\* from the manager more than once.
C9_ShutdownIdempotent ==
  /\ [][(ShutdownStep /\ is_shutdown_) =>
          UNCHANGED <<handshakers_, index_, is_shutdown_, on_handshake_done_,
                      args_, executor, hs, hs_shutdown, log>>]_vars
  /\ [](\A h \in HandshakerIds : Cardinality(Forwarded(h)) <= 1)

\* Shutdown ran three times (two calls and the deadline task) while a
\* handshaker was in progress; one of them was forwarded.
C9_Witness ==
  /\ shutdown_calls = 2
  /\ deadline_timer_handle_ = "fired"
  /\ ~OnDoneScheduled
  /\ Cardinality(Positions("Shutdown")) = 1

\* C10: a run of Shutdown's body with is_shutdown_ false sets the latch;
\* with index_ > 0 it calls Shutdown(error) on handshakers_[index_ - 1], which
\* is the handshaker in progress, and on nothing else; with index_ = 0 it
\* calls no handshaker; it never posts on_done.
C10_FirstShutdownForwards ==
  [][(ShutdownStep /\ ~is_shutdown_) =>
       /\ is_shutdown_'
       /\ executor' = executor
       /\ Positions("Scheduled")' = Positions("Scheduled")
       /\ IF index_ > 0
          THEN /\ Len(log') = Len(log) + 2
               /\ log'[Len(log')].ev = "Shutdown"
               /\ log'[Len(log')].h = handshakers_[index_]
               /\ log'[Len(log')].st = log'[Len(log') - 1].st
               /\ InProgress = {handshakers_[index_]}
               /\ Cardinality(Positions("Shutdown")') = 1
          ELSE Positions("Shutdown")' = {}]_vars

\* The deadline task shut down the second handshaker while it was in progress.
C10_Witness ==
  /\ index_ = 2
  /\ ~OnDoneScheduled
  /\ Forwarded(handshakers_[2]) # {}
  /\ hs_shutdown[handshakers_[2]] = TimedOut

\* A first Shutdown with no handshaker invoked forwarded nothing.
C10_WitnessIndexZero ==
  /\ index_ = 0
  /\ is_shutdown_
  /\ ~OnDoneScheduled
  /\ Positions("ShutdownCalled") # {}
  /\ Positions("Shutdown") = {}

\* ------------------------------------------------- claims on the result
\* A step in which the terminal branch runs.
TerminalStep == Positions("Scheduled")' # Positions("Scheduled")

\* A step in which the deadline task runs Shutdown's body.
TimerRunStep ==
  deadline_timer_handle_ = "running" /\ deadline_timer_handle_' = "fired"

\* A step in which the completion of a handshaker is processed.
CompletionStep ==
  /\ Len(log') > Len(log)
  /\ log'[Len(log) + 1].ev = "CallNext"
  /\ log'[Len(log) + 1].h # 0

ErrorStatuses == {HandshakerError, CancelError, TimedOut, ShutdownError}

\* C11: the result of the terminal branch is the completion status whenever
\* that status is non-ok, also with the latch set; it is the synthetic
\* "handshaker shutdown" error exactly when the status was ok and the latch
\* was set; so an error passed to Shutdown reaches on_done only as the status a
\* handshaker completed with.
C11_HandshakerErrorWins ==
  /\ \A p \in Positions("Scheduled") :
       /\ p > 1
       /\ log[p - 1].ev = "CallNext"
       /\ log[p - 1].st # OK => log[p].st = log[p - 1].st
       /\ (log[p].st = ShutdownError) <=> (log[p - 1].st = OK /\ log[p - 1].sd)
  /\ \A k \in 1..Len(on_done_results) :
       \E p \in Positions("Scheduled") : on_done_results[k] = log[p].st

\* The caller shut the manager down with "cancel", the handshaker in progress
\* then failed with its own error, and on_done received that error.
C11_Witness ==
  /\ on_done_results = <<HandshakerError>>
  /\ \E q \in Positions("Shutdown") : log[q].st = CancelError
  /\ \E p \in Positions("CallNext") :
       log[p].h # 0 /\ log[p].st = HandshakerError /\ log[p].sd

\* C12 as stated: after the deadline task's Shutdown was delivered to H, the
\* processing of H's completion yields "Handshake timed out" (or H's own
\* non-ok status) and args_.endpoint is released.
C12_Original ==
  \A q \in Positions("Shutdown") : \A c \in Completed(log[q].h) :
    (log[q].st = TimedOut /\ c > q) =>
      /\ c < Len(log)
      /\ log[c + 1] =
           EvScheduled(IF log[c].st # OK THEN log[c].st ELSE TimedOut)
      /\ args_.endpoint = NullEndpoint

\* C12 (amended): when the deadline task runs Shutdown's body while handshaker
\* H is in progress, H has received Shutdown afterwards (with "Handshake timed
\* out" when the latch was unset); and when the completion of a handshaker that
\* received Shutdown is processed, the terminal branch runs in that step, its
\* result is H's status if non-ok and "handshaker shutdown" if ok, and
\* args_.endpoint is released in the ok case and left as H left it otherwise.
C12_DeadlineShutdown ==
  [][/\ TimerRunStep =>
          \A h \in InProgress :
            /\ Forwarded(h)' # {}
            /\ ~is_shutdown_ => log'[Len(log')] = EvShutdown(h, TimedOut)
     /\ (CompletionStep /\ Forwarded(log'[Len(log) + 1].h) # {}) =>
          LET st == log'[Len(log) + 1].st IN
          /\ Len(log') = Len(log) + 2
          /\ log'[Len(log) + 2] =
               EvScheduled(IF st # OK THEN st ELSE ShutdownError)
          /\ args_'.endpoint =
               (IF st = OK THEN NullEndpoint ELSE args_.endpoint)]_vars

\* The deadline task shut down the second handshaker, which then completed ok:
\* on_done received "handshaker shutdown" and the endpoint is gone.
C12_Witness ==
  /\ on_done_results = <<ShutdownError>>
  /\ index_ = 2
  /\ args_.endpoint = NullEndpoint
  /\ \E q \in Forwarded(handshakers_[2]) : log[q].st = TimedOut
  /\ \E c \in Completed(handshakers_[2]) : log[c].st = OK

\* The deadline task shut down a handshaker that then failed without touching
\* the endpoint: the manager did not release it.
C12_WitnessError ==
  /\ on_done_results = <<TimedOut>>
  /\ args_.endpoint = CallerEndpoint
  /\ \E q \in Positions("Shutdown") : log[q].st = TimedOut

\* C13: in the step that runs the terminal branch, an ok result leaves
\* args_.endpoint non-null, and an ok status seen with the latch set leaves it
\* released.
C13_EndpointOwnership ==
  [][TerminalStep =>
       LET res == log'[Len(log')]
           cn == log'[Len(log') - 1]
       IN /\ res.st = ArgsPtr => args_'.endpoint # NullEndpoint
          /\ (cn.st = OK /\ cn.sd) => args_'.endpoint = NullEndpoint]_vars

\* A handshaker wrapped the endpoint and completed ok after a shutdown: the
\* wrapped endpoint was released.
C13_Witness ==
  /\ OnDoneScheduled
  /\ args_.endpoint = NullEndpoint
  /\ \E p \in Positions("CallNext") :
       log[p].h # 0 /\ log[p].st = OK /\ log[p].sd
  /\ \E i \in 1..Len(executor) : executor[i].status = ShutdownError

\* C14: what on_done receives is the args pointer exactly when the terminal
\* status (the one the trace node records as the failure, if any) is ok, and
\* that error status otherwise; a failing handshake never yields the pointer.
C14_ResultIsArgsIffOk ==
  /\ \A p \in Positions("Scheduled") :
       /\ (log[p].st = ArgsPtr) <=> (args_.trace_node.failed = NoError)
       /\ log[p].st # ArgsPtr =>
            log[p].st \in ErrorStatuses /\ log[p].st = args_.trace_node.failed
  /\ \A k \in 1..Len(on_done_results) :
       /\ on_done_results[k] \in ErrorStatuses \cup {ArgsPtr}
       /\ (on_done_results[k] = ArgsPtr) <=> (args_.trace_node.failed = NoError)
       /\ on_done_results[k] = ArgsPtr =>
            \A p \in Positions("CallNext") : log[p].st = OK /\ ~log[p].sd

\* on_done has run with an error for one chain and with the pointer for
\* another.
C14_Witness ==
  /\ on_done_results = <<HandshakerError>>
  /\ args_.trace_node.failed = HandshakerError

C14_WitnessOk ==
  /\ on_done_results = <<ArgsPtr>>
  /\ Len(handshakers_) = 2

\* C15 as stated: the trace node is committed if and only if the terminal
\* branch has run with a non-ok status.
C15_CommitIffFailure ==
  args_.trace_node.committed <=>
    (\E p \in Positions("Scheduled") : log[p].st # ArgsPtr)

\* C16: whenever the on_done closure is posted or has run, the terminal branch
\* has passed the deadline timer to Cancel: the timer is not armed (it is
\* cancelled, or its task had already started).
C16_TimerCancelledBeforeOnDone ==
  (OnDoneScheduled \/ OnDoneCalls > 0
     \/ \E i \in 1..Len(executor) : executor[i].kind = "on_done") =>
    deadline_timer_handle_ \in {"cancelled", "running", "fired"}

\* on_done has run after a chain during which the timer stayed armed until the
\* terminal branch cancelled it.
C16_Witness ==
  /\ OnDoneCalls = 1
  /\ index_ > 0
  /\ deadline_timer_handle_ = "cancelled"

\* C17: on_done is invoked only by a step of the executor that takes the
\* posted closure and runs it; that step changes no manager state, so it is not
\* a step of DoHandshake, Shutdown, the deadline task or a continuation, all of
\* which run under mu_.
C17_OnDoneOnlyFromExecutor ==
  [][on_done_results' # on_done_results =>
       /\ \E i \in 1..Len(executor) :
            /\ executor[i].kind = "on_done"
            /\ executor' = RemoveAt(executor, i)
            /\ on_done_results' = Append(on_done_results, executor[i].status)
       /\ UNCHANGED <<handshakers_, index_, is_shutdown_, on_handshake_done_,
                      args_, deadline_timer_handle_, hs, hs_shutdown, started,
                      shutdown_calls, log>>]_vars

\* on_done ran for a handshake whose terminal branch was entered from a
\* continuation.
C17_Witness ==
  /\ OnDoneCalls = 1
  /\ executor = <<>>
  /\ \E p \in Positions("Scheduled") : log[p - 1].h # 0

\* Shutdown set the latch before DoHandshake was called: the first event of
\* the history is Shutdown's.
ShutdownBeforeStart == Len(log) > 0 /\ log[1].ev = "ShutdownCalled"

\* C19 as stated: when Shutdown has been called with index_ = 0 and
\* DoHandshake has been called, an on_done that was delivered carries a non-ok
\* status, no handshaker was invoked and args_.endpoint is released.
C19_Original ==
  (started /\ index_ = 0 /\ shutdown_calls > 0 /\ OnDoneCalls > 0) =>
    /\ on_done_results[1] # ArgsPtr
    /\ Positions("DoHandshake") = {}
    /\ args_.endpoint = NullEndpoint

\* C19 (amended): when Shutdown set the latch before DoHandshake's initial
\* CallNextHandshakerLocked, no handshaker is ever invoked, the terminal branch
\* runs inside DoHandshake with "handshaker shutdown" and releases
\* args_.endpoint, and on_done is eventually delivered, exactly once, with that
\* status.
C19_ShutdownBeforeStart ==
  /\ []((ShutdownBeforeStart /\ started) =>
          /\ Positions("DoHandshake") = {}
          /\ index_ = 0
          /\ Len(log) = 3
          /\ log[3] = EvScheduled(ShutdownError)
          /\ args_.endpoint = NullEndpoint
          /\ OnDoneCalls <= 1
          /\ \A k \in 1..Len(on_done_results) :
               on_done_results[k] = ShutdownError)
  /\ ((ShutdownBeforeStart /\ started) ~> (OnDoneCalls = 1))

\* Shutdown came first, then DoHandshake on a chain of two handshakers, and
\* on_done has run.
C19_Witness ==
  /\ ShutdownBeforeStart
  /\ started
  /\ Len(handshakers_) = 2
  /\ on_done_results = <<ShutdownError>>

\* C20: a deadline task that runs Shutdown's body after the terminal branch
\* has run changes no manager state, calls no handshaker and posts or invokes
\* no on_done.
C20_LateTimerNoOp ==
  [][(TimerRunStep /\ OnDoneScheduled) =>
       UNCHANGED <<handshakers_, index_, is_shutdown_, on_handshake_done_,
                   args_, executor, hs, hs_shutdown, started, shutdown_calls,
                   on_done_results, log>>]_vars

\* The timer task started, the chain then reached the terminal branch with the
\* latch unset (Cancel came too late), and the task ran afterwards.
C20_Witness ==
  /\ deadline_timer_handle_ = "fired"
  /\ OnDoneScheduled
  /\ index_ > 0
  /\ shutdown_calls = 0
  /\ Positions("ShutdownCalled") = {}

Destroyed == refs = 0

\* Closures created by the manager that have neither run nor been destroyed:
\* the deadline task, the continuations (held by a handshaker at work, or
\* posted), and the posted terminal closures.
TimerPending == deadline_timer_handle_ \in {"armed", "running"}
ContinuationsHeld == {h \in HandshakerIds : hs[h] \in {"active", "blocked"}}
PostedClosures(kind) == {i \in 1..Len(executor) : executor[i].kind = kind}

\* C21 as stated: every outstanding closure created by the manager (deadline
\* task, per-handshaker continuation, posted terminal closure) holds a
\* reference to the manager, so while such a closure is pending the reference
\* count is positive and the manager is not destroyed.
C21_ClosuresHoldRefs ==
  /\ \A i \in 1..Len(executor) : executor[i].self
  /\ (TimerPending \/ ContinuationsHeld # {} \/ executor # <<>>) => ~Destroyed
  /\ refs >= (IF TimerPending THEN 1 ELSE 0) + Cardinality(ContinuationsHeld)
               + Len(executor)

\* C22 as stated: while a terminal closure carrying the args pointer is
\* posted and has not run, the manager (whose member the pointer refers to)
\* has not been destroyed, whatever the order in which the deadline closure,
\* the continuation and the caller released their references.
C22_ArgsLiveAtOnDone ==
  \A i \in PostedClosures("on_done") :
    executor[i].status = ArgsPtr => ~Destroyed

\* ------------------------------------------------------ claims on misuse
\* C23 as stated: a second call of DoHandshake on the same manager is caught
\* by the assertion, for every chain length: the body of DoHandshake never
\* runs a second time.
C23_SecondDoHandshakeAborts == DoHandshakeCalls <= 1

\* C24 as stated: once DoHandshake has started, the handshaker list never
\* changes: a late Add is rejected by an assertion.
C24_ListFrozenAfterStart ==
  [][started => (handshakers_' = handshakers_)]_vars

\* ------------------------------------------- claims on index_ and the latch
\* C25: index_ is 0 until DoHandshake is called, lies between 0 and the number
\* of handshakers in every state (also after the terminal branch has run),
\* and changes only by +1, in exactly the steps in which the manager calls
\* DoHandshake on a handshaker, which is the one at the old index_.
C25_IndexMonotone ==
  /\ [](index_ \in 0..Len(handshakers_))
  /\ [](~started => index_ = 0)
  /\ [][/\ index_' # index_ => index_' = index_ + 1
        /\ (index_' # index_) <=>
             (Positions("DoHandshake")' # Positions("DoHandshake"))
        /\ index_' # index_ =>
             log'[Len(log')] = EvDoHandshake(handshakers_[index_ + 1])]_vars

\* The chain of three handshakers ran to its end: index_ is the number of
\* handshakers after the terminal branch.
C25_Witness ==
  /\ OnDoneCalls = 1
  /\ Len(handshakers_) = 3
  /\ index_ = 3

\* C26: is_shutdown_ never goes back from true to false, and it is true in
\* every state after the terminal branch has run.
C26_LatchMonotone ==
  /\ [][is_shutdown_ => is_shutdown_']_vars
  /\ [](OnDoneScheduled => is_shutdown_)
  /\ [](OnDoneCalls > 0 => is_shutdown_)

\* The terminal branch set the latch itself: no Shutdown found it unset, and
\* the deadline task and a caller's Shutdown ran afterwards.
C26_Witness ==
  /\ OnDoneCalls = 1
  /\ is_shutdown_
  /\ Positions("ShutdownCalled") = {}
  /\ shutdown_calls > 0
  /\ index_ = Len(handshakers_)
  /\ index_ > 1

\* ------------------------------------------------ claims on the trace node
\* A step in which Shutdown's body finds the latch unset.
FirstShutdownStep == ShutdownStep /\ ~is_shutdown_

\* C27 as stated: the first Shutdown(error) commits the trace node with the
\* error when it is called.
C27_Original ==
  [][FirstShutdownStep =>
       /\ args_'.trace_node.shutdown = log'[Len(log) + 1].st
       /\ args_'.trace_node.committed]_vars

\* C27 (amended): the first Shutdown(error) logs the error to the trace node
\* when it is called and leaves the node's committed state as it was; the node
\* becomes committed only in a step that runs the terminal branch, which for
\* a handshake with a handshaker in progress is the processing of that
\* handshaker's completion.
C27_ShutdownLogsOnly ==
  [][/\ FirstShutdownStep =>
          /\ log'[Len(log) + 1].ev = "ShutdownCalled"
          /\ args_'.trace_node.shutdown = log'[Len(log) + 1].st
          /\ args_'.trace_node.committed = args_.trace_node.committed
          /\ args_'.trace_node.failed = args_.trace_node.failed
     /\ (args_'.trace_node.committed /\ ~args_.trace_node.committed) =>
          /\ TerminalStep
          /\ ~ShutdownStep
          /\ index_ > 0 => CompletionStep]_vars

\* The caller shut the manager down while the first handshaker was in
\* progress: the error is logged, the node is not committed.
C27_Witness ==
  /\ index_ = 1
  /\ InProgress # {}
  /\ args_.trace_node.shutdown = CancelError
  /\ ~args_.trace_node.committed

\* ... and it is committed once that handshaker's completion was processed.
C27_WitnessCommitted ==
  /\ index_ = 1
  /\ args_.trace_node.shutdown = TimedOut
  /\ args_.trace_node.committed
  /\ args_.trace_node.failed = ShutdownError

\* ------------------------------------------------- claims on concurrency
\* C28: the manager's DoHandshake and Shutdown calls on one handshaker never
\* overlap: every Shutdown it forwards to a handshaker comes after its
\* DoHandshake call on that handshaker, in a later step taken with mu_ free,
\* so after the step that made the DoHandshake call under mu_ had ended; no
\* Shutdown is forwarded to a handshaker while the manager is still inside
\* DoHandshake on it (which is where a handshaker that completes inline
\* leaves it).
C28_NoConcurrentCalls ==
  /\ [](\A h \in HandshakerIds : \A q \in Forwarded(h) :
          \E p \in Invoked(h) : p < q)
  /\ [][\A h \in HandshakerIds :
          Forwarded(h)' # Forwarded(h) =>
            /\ Invoked(h) # {}
            /\ Invoked(h)' = Invoked(h)
            /\ hs[h] \notin RelockOutcomes]_vars

\* The first handshaker returned from DoHandshake and was shut down while at
\* work; a later one never came to run.
C28_Witness ==
  /\ Len(handshakers_) > 1
  /\ index_ = 1
  /\ hs[handshakers_[1]] = "active"
  /\ Forwarded(handshakers_[1]) # {}
  /\ hs_shutdown[handshakers_[1]] = CancelError

\* A handshaker has been handed args and has not reported yet.
Active == {h \in HandshakerIds : hs[h] = "active"}

\* C29 as stated: while a handshaker is active no step of the manager reads
\* or writes a field of args_; Shutdown and the deadline task in particular
\* leave args_ alone.
C29_Original ==
  [][(Active # {} /\ Active' = Active) => args_' = args_]_vars

\* C29 (amended): while a handshaker is active the manager leaves endpoint,
\* exit_early and read_buffer alone, and CallNextHandshakerLocked, which reads
\* and writes them, is not entered; the one field it touches is trace_node, to
\* which a first Shutdown (from the caller or the deadline task) logs.
C29_ManagerLeavesArgs ==
  [][/\ (Active # {} /\ Active' = Active) =>
          /\ args_'.endpoint = args_.endpoint
          /\ args_'.exit_early = args_.exit_early
          /\ args_'.read_buffer = args_.read_buffer
          /\ args_'.trace_node # args_.trace_node => FirstShutdownStep
     /\ Positions("CallNext")' # Positions("CallNext") => Active = {}]_vars

\* The deadline task logged to the trace node while the handshaker was at
\* work on args holding bytes read ahead by the acceptor.
C29_Witness ==
  /\ Active # {}
  /\ args_.trace_node.shutdown = TimedOut
  /\ args_.read_buffer # <<>>
  /\ args_.endpoint = CallerEndpoint

\* -------------------------------------------------- claims on the acceptor
\* A step in which the caller's DoHandshake runs.
DoHandshakeStep == ~started /\ started'

\* C30: DoHandshake swaps args_.read_buffer with the acceptor's pending bytes
\* exactly when there is an acceptor with external_connection set and
\* pending_data non-null: read_buffer then holds the former pending bytes and
\* the acceptor the former, empty, read_buffer; in every other case both are
\* unchanged.  Nothing else of the acceptor changes.
C30_AcceptorSwap ==
  [][DoHandshakeStep =>
       IF /\ acceptor.present
          /\ acceptor.external_connection
          /\ acceptor.has_pending_data
       THEN /\ args_'.read_buffer = acceptor.pending_data
            /\ args_.read_buffer = <<>>
            /\ acceptor' = [acceptor EXCEPT !.pending_data = <<>>]
       ELSE /\ args_'.read_buffer = args_.read_buffer
            /\ acceptor' = acceptor]_vars

\* DoHandshake took two bytes from an external connection's acceptor.
C30_Witness ==
  /\ started
  /\ acceptor.present
  /\ acceptor.external_connection
  /\ acceptor.has_pending_data
  /\ acceptor.pending_data = <<>>
  /\ Len(args_.read_buffer) = MaxPendingBytes
  /\ index_ = 1

\* DoHandshake left the bytes of an acceptor without external_connection.
C30_WitnessNoSwap ==
  /\ started
  /\ acceptor.present
  /\ ~acceptor.external_connection
  /\ acceptor.pending_data # <<>>
  /\ args_.read_buffer = <<>>

\* ------------------------------------------- claims on exit_early and shutdown
\* C31: when the ok completion of a handshaker that set exit_early is
\* processed with the latch set, the terminal branch runs in that step with
\* the synthetic "handshaker shutdown" error and releases args_.endpoint, and
\* on_done never receives the args pointer for that handshake.
C31_ExitEarlyAfterShutdownFails ==
  /\ [](\A p \in Positions("CallNext") :
          (log[p].h # 0 /\ log[p].st = OK /\ log[p].ee /\ log[p].sd) =>
            /\ p < Len(log)
            /\ log[p + 1] = EvScheduled(ShutdownError)
            /\ \A k \in 1..Len(on_done_results) :
                 on_done_results[k] = ShutdownError)
  /\ [][(/\ CompletionStep
         /\ log'[Len(log) + 1].st = OK
         /\ log'[Len(log) + 1].ee
         /\ log'[Len(log) + 1].sd) =>
          /\ args_.exit_early
          /\ is_shutdown_
          /\ args_'.endpoint = NullEndpoint]_vars

\* The first of two handshakers wrapped the endpoint, set exit_early and
\* completed ok after the caller's Shutdown: on_done got "handshaker shutdown".
C31_Witness ==
  /\ on_done_results = <<ShutdownError>>
  /\ args_.exit_early
  /\ args_.endpoint = NullEndpoint
  /\ index_ = 1
  /\ Len(handshakers_) = 2
  /\ \E p \in Positions("CallNext") :
       log[p].h # 0 /\ log[p].st = OK /\ log[p].ee /\ log[p].sd

\* ======================================================================
\* Library life cycle: src/core/lib/surface/init.cc
\*
\* Every function below takes g_init_mu for its whole body, so each is one
\* atomic action and every state of the model is one in which g_init_mu is
\* not held.  grpc_maybe_wait_for_async_shutdown releases the mutex while
\* it waits on g_shutting_down_cv, so it is two steps: the call and the
\* re-check after a wake-up.
\* ======================================================================

\* Entries of the life-cycle history: who ran the start-up or the tear-down
\* and the value g_initializations had when it ran.
EvStartUp(by, count) == [ev |-> "start-up", by |-> by, count |-> count]
EvTearDown(by, count) == [ev |-> "tear-down", by |-> by, count |-> count]

\* g_shutting_down_cv->SignalAll(): every thread waiting on the condition
\* variable is woken and will re-check its loop condition.
SignalAll(w) == IF w = "waiting" THEN "woken" ELSE w

\* Mutant: every grpc_init starts the subsystems.
StartsSubsystems_Always(count) == TRUE

\* grpc_init starts the subsystems when its increment made the count 1.
StartsSubsystems(count) == count = 1

\* void grpc_init(void)
grpc_init ==
  /\ grpc_init_calls < MaxInitCalls
  /\ grpc_init_calls' = grpc_init_calls + 1
  /\ LET count == g_initializations + 1 IN
     /\ g_initializations' = count
     /\ IF StartsSubsystems(count)
        THEN /\ g_shutting_down' = FALSE
             /\ waiter' = IF g_shutting_down THEN SignalAll(waiter) ELSE waiter
             /\ lifecycle' = Append(lifecycle, EvStartUp("grpc_init", count))
        ELSE UNCHANGED <<g_shutting_down, waiter, lifecycle>>
  /\ UNCHANGED <<cleanup_threads, grpc_shutdown_calls>>
  /\ UNCHANGED <<handshakeVars, xdsVars>>

\* Mutant: the tear-down leaves g_shutting_down set.
ShuttingDownAfterTearDown_StaysSet == TRUE

\* grpc_shutdown_internal_locked ends with g_shutting_down = false.
ShuttingDownAfterTearDown == FALSE

\* void grpc_shutdown_internal_locked(void), called with g_init_mu held by
\* `by` when the count is `count`; the caller may have set g_shutting_down
\* just before.
grpc_shutdown_internal_locked(by, count) ==
  /\ lifecycle' = Append(lifecycle, EvTearDown(by, count))
  /\ g_shutting_down' = ShuttingDownAfterTearDown
  /\ waiter' = SignalAll(waiter)

\* Mutant: the cleanup thread tears down whatever the count is.
CleanupReturnsEarly_Never(count) == FALSE

\* The cleanup thread does nothing more when its decrement leaves a count.
CleanupReturnsEarly(count) == count # 0

\* void grpc_shutdown_from_cleanup_thread(void*)
grpc_shutdown_from_cleanup_thread ==
  /\ cleanup_threads > 0
  /\ cleanup_threads' = cleanup_threads - 1
  /\ LET count == g_initializations - 1 IN
     /\ g_initializations' = count
     /\ IF CleanupReturnsEarly(count)
        THEN UNCHANGED <<g_shutting_down, lifecycle, waiter>>
        ELSE grpc_shutdown_internal_locked("cleanup thread", count)
  /\ UNCHANGED <<grpc_init_calls, grpc_shutdown_calls>>
  /\ UNCHANGED <<handshakeVars, xdsVars>>

\* Mutant: the spawning grpc_shutdown does not keep a count for the thread.
CountHeldForCleanup_None(count) == count

\* grpc_shutdown re-increments the count on behalf of the cleanup thread.
CountHeldForCleanup(count) == count + 1

\* The application matches every shutdown call with an earlier grpc_init.
ShutdownMatchesInit == grpc_shutdown_calls < grpc_init_calls

\* void grpc_shutdown(void), called on an EventEngine thread (a background
\* poller, the timer manager, or under an ExecCtx) or on any other thread.
grpc_shutdown(on_event_engine_thread) ==
  /\ ShutdownMatchesInit
  /\ grpc_shutdown_calls' = grpc_shutdown_calls + 1
  /\ LET count == g_initializations - 1 IN
     IF count = 0
     THEN IF ~on_event_engine_thread
          THEN /\ g_initializations' = count
               /\ grpc_shutdown_internal_locked("grpc_shutdown", count)
               /\ UNCHANGED cleanup_threads
          ELSE /\ g_initializations' = CountHeldForCleanup(count)
               /\ g_shutting_down' = TRUE
               /\ cleanup_threads' = cleanup_threads + 1
               /\ UNCHANGED <<lifecycle, waiter>>
     ELSE /\ g_initializations' = count
          /\ UNCHANGED <<g_shutting_down, cleanup_threads, lifecycle, waiter>>
  /\ UNCHANGED grpc_init_calls
  /\ UNCHANGED <<handshakeVars, xdsVars>>

\* void grpc_shutdown_blocking(void)
grpc_shutdown_blocking ==
  /\ ShutdownMatchesInit
  /\ grpc_shutdown_calls' = grpc_shutdown_calls + 1
  /\ LET count == g_initializations - 1 IN
     /\ g_initializations' = count
     /\ IF count = 0
        THEN grpc_shutdown_internal_locked("grpc_shutdown_blocking", count)
        ELSE UNCHANGED <<g_shutting_down, lifecycle, waiter>>
  /\ UNCHANGED <<cleanup_threads, grpc_init_calls>>
  /\ UNCHANGED <<handshakeVars, xdsVars>>

\* int grpc_is_initialized(void)
grpc_is_initialized == IF g_initializations > 0 THEN 1 ELSE 0

\* The loop of grpc_maybe_wait_for_async_shutdown: return, or wait on the
\* condition variable.
WaitLoop == IF g_shutting_down THEN "waiting" ELSE "returned"

\* void grpc_maybe_wait_for_async_shutdown(void): the call.
grpc_maybe_wait_for_async_shutdown ==
  /\ waiter = "idle"
  /\ waiter' = WaitLoop
  /\ UNCHANGED <<g_initializations, g_shutting_down, cleanup_threads,
                 lifecycle, grpc_init_calls, grpc_shutdown_calls>>
  /\ UNCHANGED <<handshakeVars, xdsVars>>

\* g_shutting_down_cv->Wait returned: the thread holds g_init_mu again and
\* evaluates the loop condition.
WaitWoken ==
  /\ waiter = "woken"
  /\ waiter' = WaitLoop
  /\ UNCHANGED <<g_initializations, g_shutting_down, cleanup_threads,
                 lifecycle, grpc_init_calls, grpc_shutdown_calls>>
  /\ UNCHANGED <<handshakeVars, xdsVars>>

NextSurface ==
  \/ grpc_init
  \/ \E on_event_engine_thread \in BOOLEAN :
       grpc_shutdown(on_event_engine_thread)
  \/ grpc_shutdown_blocking
  \/ grpc_shutdown_from_cleanup_thread
  \/ grpc_maybe_wait_for_async_shutdown
  \/ WaitWoken

SpecSurface == Init /\ [][NextSurface]_vars

\* --------------------------------------------- claims on the life cycle
\* A step of grpc_init.
InitStep == grpc_init_calls' # grpc_init_calls

\* C32: in every state (g_init_mu is free between the actions)
\* g_shutting_down implies g_initializations >= 1, and a grpc_init that takes
\* the count from 0 to 1 finds g_shutting_down false.
C32_ShuttingDownHoldsCount ==
  /\ [](g_shutting_down => g_initializations >= 1)
  /\ [][(InitStep /\ g_initializations = 0 /\ g_initializations' = 1) =>
          ~g_shutting_down]_vars

\* After one full cycle a second start-up was followed by a grpc_shutdown on
\* an EventEngine thread: the flag is set and the cleanup thread's count is
\* the only one.
C32_Witness ==
  /\ g_shutting_down
  /\ g_initializations = 1
  /\ cleanup_threads = 1
  /\ Len(lifecycle) = 3
  /\ lifecycle[3].ev = "start-up"

\* C33: whenever g_shutting_down is set a spawned cleanup thread is pending
\* to reset it, so a thread blocked in grpc_maybe_wait_for_async_shutdown is
\* never left waiting once every cleanup thread has run.
C33_CleanupPendingWhileShuttingDown ==
  /\ g_shutting_down => cleanup_threads > 0
  /\ waiter = "waiting" => cleanup_threads > 0

\* C34: start-ups and tear-downs alternate beginning with a start-up; every
\* start-up ran on a 0 -> 1 transition of g_initializations and every
\* tear-down ran with g_initializations at 0.
C34_StartUpTearDownAlternate ==
  /\ [](\A i \in 1..Len(lifecycle) :
          /\ lifecycle[i].ev = (IF i % 2 = 1 THEN "start-up" ELSE "tear-down")
          /\ lifecycle[i].count = (IF i % 2 = 1 THEN 1 ELSE 0))
  /\ [][lifecycle' # lifecycle =>
          IF lifecycle'[Len(lifecycle')].ev = "start-up"
          THEN g_initializations = 0 /\ g_initializations' = 1
          ELSE g_initializations' = 0]_vars

\* Two cycles: the first torn down by the cleanup thread, the second inline.
C34_Witness ==
  /\ Len(lifecycle) = 4
  /\ lifecycle[2].by = "cleanup thread"
  /\ lifecycle[4].by = "grpc_shutdown"

\* A grpc_init overtook the cleanup thread, which then left the subsystems
\* up; the later grpc_shutdown_blocking tore them down.
C34_WitnessOvertaken ==
  /\ Len(lifecycle) = 2
  /\ lifecycle[2].by = "grpc_shutdown_blocking"
  /\ grpc_init_calls = 2
  /\ grpc_shutdown_calls = 2
  /\ cleanup_threads = 0

\* C35: when every grpc_init has been matched by a shutdown call and no
\* cleanup thread is pending, g_initializations is 0, grpc_is_initialized
\* returns 0 and the last life-cycle event is a tear-down; while a cleanup
\* thread is pending grpc_is_initialized returns nonzero.
C35_MatchedCallsTearDown ==
  /\ (/\ grpc_init_calls > 0
      /\ grpc_shutdown_calls = grpc_init_calls
      /\ cleanup_threads = 0) =>
       /\ g_initializations = 0
       /\ grpc_is_initialized = 0
       /\ Len(lifecycle) > 0
       /\ lifecycle[Len(lifecycle)].ev = "tear-down"
  /\ cleanup_threads > 0 => grpc_is_initialized # 0

\* Two inits, two shutdowns, the last on an EventEngine thread, and the
\* cleanup thread has run the tear-down.
C35_Witness ==
  /\ grpc_init_calls = 2
  /\ grpc_shutdown_calls = 2
  /\ cleanup_threads = 0
  /\ g_initializations = 0
  /\ Len(lifecycle) = 2
  /\ lifecycle[2].by = "cleanup thread"

\* A cleanup thread is pending while the application holds no count.
C35_WitnessPending ==
  /\ cleanup_threads = 1
  /\ grpc_shutdown_calls = grpc_init_calls
  /\ grpc_is_initialized = 1

\* ======================================================================
\* xDS RouteConfiguration validation:
\* src/core/xds/grpc/xds_route_config_parser.cc
\*
\* The parser is a pure function of the serialized resource.  A protobuf
\* message is a record of the fields the parser reads; ValidationErrors is
\* the sequence of the messages added to it.
\* ======================================================================

\* All sequences over S of length at most n.
SeqsUpTo(S, n) == UNION {[1..k -> S] : k \in 0..n}

\* ---------------------------------------------------- unsigned integers
\* A w-bit unsigned integer is the little-endian sequence of its 16-bit
\* limbs, so that 32-bit and 64-bit values keep their width.
LimbBase == 2 ^ 16
Uint32Bits == 32
Uint64Bits == 64
Limbs(bits) == bits \div 16

\* The value v < 2^16 and the value hi * 2^16 + lo as uint32_t.
Uint32(hi, lo) == <<lo, hi>>

\* std::numeric_limits<uint32_t>::max()
Uint32Max == Uint32(LimbBase - 1, LimbBase - 1)

\* Conversion of an unsigned value to a type of n limbs: zero extension, or
\* truncation of the high limbs.
Convert(a, n) == [i \in 1..n |-> IF i <= Len(a) THEN a[i] ELSE 0]

RECURSIVE Carry(_, _, _)
\* The carry out of limb i of a + b.
Carry(a, b, i) ==
  IF i = 0 THEN 0 ELSE (a[i] + b[i] + Carry(a, b, i - 1)) \div LimbBase

\* a + b in the unsigned type of n limbs: the sum modulo 2^(16 n).
AddUnsigned(a, b, n) ==
  [i \in 1..n |-> (a[i] + b[i] + Carry(a, b, i - 1)) % LimbBase]

RECURSIVE GreaterFrom(_, _, _)
\* a > b, comparing the limbs from limb i downwards.
GreaterFrom(a, b, i) ==
  IF i = 0 THEN FALSE
  ELSE IF a[i] # b[i] THEN a[i] > b[i]
  ELSE GreaterFrom(a, b, i - 1)

\* a > b for two values of the same type.
Greater(a, b) == GreaterFrom(a, b, Len(a))

\* ------------------------------------------------------ RouteActionParse
\* The google.protobuf.UInt32Value field weight: not set, or set to w.
NoWeight == [present |-> FALSE]
UInt32Value(w) == [present |-> TRUE, value |-> w]

\* cluster.weight of a retained ClusterWeight: never assigned by the parser,
\* or assigned w.
Unassigned == [assigned |-> FALSE]
Assigned(w) == [assigned |-> TRUE, value |-> w]

IsZero(w) == \A i \in 1..Len(w) : w[i] = 0

\* Mutant: total_weight is a uint32_t.
AddWeight_Uint32(total_weight, weight) ==
  Convert(AddUnsigned(Convert(total_weight, Limbs(Uint32Bits)), weight,
                      Limbs(Uint32Bits)),
          Limbs(Uint64Bits))

\* total_weight += cluster.weight, with uint64_t total_weight.
AddWeight(total_weight, weight) ==
  AddUnsigned(total_weight, Convert(weight, Limbs(Uint64Bits)),
              Limbs(Uint64Bits))

\* Mutant: clusters of weight 0 are kept.
DropsCluster_Never(weight) == FALSE

\* if (cluster.weight == 0) continue;
DropsCluster(weight) == IsZero(weight)

\* Mutant: the limit is compared with >=.
ExceedsUint32Max_OrEqual(total_weight) ==
  ~Greater(Convert(Uint32Max, Limbs(Uint64Bits)), total_weight)

\* total_weight > std::numeric_limits<uint32_t>::max()
ExceedsUint32Max(total_weight) ==
  Greater(total_weight, Convert(Uint32Max, Limbs(Uint64Bits)))

NoValidClusters == "no valid clusters specified"
SumExceedsUint32Max == "sum of cluster weights exceeds uint32 max"
MustBeNonEmpty == "must be non-empty"
FieldNotPresent == "field not present"

RECURSIVE WeightedClustersLoop(_, _, _, _)
\* The loop over the clusters of a WeightedCluster proto.
WeightedClustersLoop(clusters, action_clusters, total_weight, errors) ==
  IF clusters = <<>>
  THEN [clusters |-> action_clusters, total_weight |-> total_weight,
        errors |-> errors]
  ELSE LET cluster_proto == Head(clusters)
           named == IF cluster_proto.name = ""
                    THEN Append(errors, MustBeNonEmpty) ELSE errors
       IN IF ~cluster_proto.weight.present
          THEN WeightedClustersLoop(
                 Tail(clusters),
                 Append(action_clusters,
                        [name |-> cluster_proto.name, weight |-> Unassigned]),
                 total_weight, Append(named, FieldNotPresent))
          ELSE IF DropsCluster(cluster_proto.weight.value)
          THEN WeightedClustersLoop(Tail(clusters), action_clusters,
                                    total_weight, named)
          ELSE WeightedClustersLoop(
                 Tail(clusters),
                 Append(action_clusters,
                        [name |-> cluster_proto.name,
                         weight |-> Assigned(cluster_proto.weight.value)]),
                 AddWeight(total_weight, cluster_proto.weight.value), named)

\* The errors the weighted_clusters branch adds after its loop.
WeightedClustersErrors(loop) ==
  IF loop.clusters = <<>> THEN Append(loop.errors, NoValidClusters)
  ELSE IF ExceedsUint32Max(loop.total_weight)
  THEN Append(loop.errors, SumExceedsUint32Max)
  ELSE loop.errors

\* What RouteActionParse returns: std::nullopt or a RouteAction, with the
\* errors recorded so far and the value total_weight had at the end.
RouteActionResult(has_value, kind, name, clusters, errors, total_weight) ==
  [has_value |-> has_value,
   action |-> [kind |-> kind, name |-> name, clusters |-> clusters],
   errors |-> errors, total_weight |-> total_weight]

NoTotal == Convert(<<>>, Limbs(Uint64Bits))
Nullopt(errors) ==
  RouteActionResult(FALSE, "nullopt", "", <<>>, errors, NoTotal)

\* if (it->second.empty()) return std::nullopt;
SkipsOptionalPlugin(config) == config = ""

UnknownPlugin == "unknown cluster specifier plugin name"

\* The cluster_specifier_plugin branch of RouteActionParse.
ClusterSpecifierPluginAction(plugin_name, plugin_map, errors) ==
  IF plugin_name = "" THEN Nullopt(Append(errors, MustBeNonEmpty))
  ELSE IF plugin_name \notin DOMAIN plugin_map
  THEN RouteActionResult(TRUE, "ClusterSpecifierPluginName", plugin_name,
                         <<>>, Append(errors, UnknownPlugin), NoTotal)
  ELSE IF SkipsOptionalPlugin(plugin_map[plugin_name])
  THEN Nullopt(errors)
  ELSE RouteActionResult(TRUE, "ClusterSpecifierPluginName", plugin_name,
                         <<>>, errors, NoTotal)

\* The cluster specifier part of RouteActionParse: cluster, weighted_clusters,
\* cluster_specifier_plugin (when XdsRlsEnabled()), or anything else.
RouteActionParse(proto, plugin_map, rls_enabled, errors) ==
  IF proto.kind = "cluster"
  THEN RouteActionResult(
         TRUE, "ClusterName", proto.name, <<>>,
         IF proto.name = ""
         THEN Append(errors, MustBeNonEmpty) ELSE errors,
         NoTotal)
  ELSE IF proto.kind = "weighted_clusters"
  THEN LET loop == WeightedClustersLoop(proto.clusters, <<>>,
                                        NoTotal, errors)
       IN RouteActionResult(TRUE, "WeightedClusters", "", loop.clusters,
                            WeightedClustersErrors(loop), loop.total_weight)
  ELSE IF rls_enabled /\ proto.kind = "cluster_specifier_plugin"
  THEN ClusterSpecifierPluginAction(proto.name, plugin_map, errors)
  ELSE Nullopt(errors)

\* ------------------------------------------- ClusterSpecifierPluginParse
Sentinel == "<sentinel>"
LbPolicyConfig == "lb policy config"
DuplicateName == "duplicate name"
UnsupportedPlugin == "unsupported ClusterSpecifierPlugin type"

EmptyMap == [n \in {} |-> ""]
Put(m, k, v) == [n \in DOMAIN m \cup {k} |-> IF n = k THEN v ELSE m[n]]
Erase(m, ks) == [n \in DOMAIN m \ ks |-> m[n]]

RECURSIVE ClusterSpecifierPluginLoop(_, _, _)
\* The loop of ClusterSpecifierPluginParse over the plugin protos.
ClusterSpecifierPluginLoop(plugins, cluster_specifier_plugin_map, errors) ==
  IF plugins = <<>>
  THEN [map |-> cluster_specifier_plugin_map, errors |-> errors]
  ELSE LET plugin == Head(plugins)
           duplicate == plugin.name \in DOMAIN cluster_specifier_plugin_map
           named == IF duplicate THEN Append(errors, DuplicateName)
                    ELSE errors
           with_sentinel ==
             IF duplicate THEN cluster_specifier_plugin_map
             ELSE Put(cluster_specifier_plugin_map, plugin.name, Sentinel)
       IN IF plugin.extension = "absent"
          THEN ClusterSpecifierPluginLoop(
                 Tail(plugins), cluster_specifier_plugin_map,
                 Append(errors, FieldNotPresent))
          ELSE IF plugin.extension = "unsupported"
          THEN IF plugin.is_optional
               THEN ClusterSpecifierPluginLoop(
                      Tail(plugins), Put(with_sentinel, plugin.name, ""),
                      named)
               ELSE ClusterSpecifierPluginLoop(
                      Tail(plugins), with_sentinel,
                      Append(named, UnsupportedPlugin))
          ELSE ClusterSpecifierPluginLoop(
                 Tail(plugins),
                 Put(with_sentinel, plugin.name, LbPolicyConfig), named)

ClusterSpecifierPluginParse(route_config, errors) ==
  ClusterSpecifierPluginLoop(route_config.cluster_specifier_plugins,
                             EmptyMap, errors)

\* ------------------------------------------------------------ ParseRoute
\* std::get_if<ClusterSpecifierPluginName>(&route_action->action) != nullptr
MarksPluginSeen(action) == action.kind = "ClusterSpecifierPluginName"

NonForwardingAction ==
  [kind |-> "NonForwardingAction", name |-> "", clusters |-> <<>>]

\* What ParseRoute returns: std::nullopt or a Route, with the updated set
\* of plugins not seen and the errors recorded so far.
RouteResult(has_value, action, not_seen, errors) ==
  [has_value |-> has_value, route |-> [action |-> action],
   not_seen |-> not_seen, errors |-> errors]

ParseRoute(route_proto, plugin_map, not_seen, rls_enabled, errors) ==
  IF route_proto.match = "absent"
  THEN RouteResult(FALSE, NonForwardingAction, not_seen,
                   Append(errors, FieldNotPresent))
  ELSE IF route_proto.match = "query_parameters"
  THEN RouteResult(FALSE, NonForwardingAction, not_seen, errors)
  ELSE IF route_proto.route.kind # "absent"
  THEN LET parsed == RouteActionParse(route_proto.route, plugin_map,
                                      rls_enabled, errors)
       IN IF ~parsed.has_value
          THEN RouteResult(FALSE, NonForwardingAction, not_seen,
                           parsed.errors)
          ELSE RouteResult(
                 TRUE, parsed.action,
                 IF MarksPluginSeen(parsed.action)
                 THEN not_seen \ {parsed.action.name}
                 ELSE not_seen,
                 parsed.errors)
  ELSE RouteResult(TRUE, NonForwardingAction, not_seen, errors)

\* ------------------------------------------- XdsRouteConfigResourceParse
ValidDomain == "*.example.com"
InvalidDomain == "exa*mple.com"
InvalidDomainPattern == "invalid domain pattern"

\* XdsRouting::IsValidDomainPattern: a wildcard is allowed only at an end.
IsValidDomainPattern(domain_pattern) == domain_pattern # InvalidDomain

\* The errors recorded for the domains of one virtual host.
DomainErrors(domains, errors) ==
  LET invalid == SelectSeq(domains, LAMBDA d : ~IsValidDomainPattern(d))
      patterns == errors \o [i \in 1..Len(invalid) |-> InvalidDomainPattern]
  IN IF domains = <<>> THEN Append(patterns, MustBeNonEmpty) ELSE patterns

RECURSIVE RoutesLoop(_, _, _, _, _, _)
\* The loop over the routes of one virtual host.
RoutesLoop(routes, kept, plugin_map, not_seen, rls_enabled, errors) ==
  IF routes = <<>>
  THEN [routes |-> kept, not_seen |-> not_seen, errors |-> errors]
  ELSE LET route == ParseRoute(Head(routes), plugin_map,
                               not_seen, rls_enabled, errors)
       IN RoutesLoop(Tail(routes),
                     IF route.has_value THEN Append(kept, route.route)
                     ELSE kept,
                     plugin_map, route.not_seen,
                     rls_enabled, route.errors)

RECURSIVE VirtualHostsLoop(_, _, _, _, _, _)
\* The loop over the virtual hosts.
VirtualHostsLoop(hosts, parsed, plugin_map, not_seen, rls_enabled, errors) ==
  IF hosts = <<>>
  THEN [virtual_hosts |-> parsed, not_seen |-> not_seen, errors |-> errors]
  ELSE LET vhost_proto == Head(hosts)
           routes == RoutesLoop(vhost_proto.routes, <<>>, plugin_map,
                                not_seen, rls_enabled,
                                DomainErrors(vhost_proto.domains, errors))
       IN VirtualHostsLoop(
            Tail(hosts),
            Append(parsed, [domains |-> vhost_proto.domains,
                            routes |-> routes.routes]),
            plugin_map, routes.not_seen, rls_enabled,
            routes.errors)

\* Mutant: unused plugins stay in the update.
PluginsToErase_None(cluster_specifier_plugins_not_seen) == {}

\* The plugins the final loop erases from the update.
PluginsToErase(cluster_specifier_plugins_not_seen) ==
  cluster_specifier_plugins_not_seen

XdsRouteConfigResourceParse(route_config, rls_enabled) ==
  LET plugins == IF rls_enabled
                 THEN ClusterSpecifierPluginParse(route_config, <<>>)
                 ELSE [map |-> EmptyMap, errors |-> <<>>]
      hosts == VirtualHostsLoop(route_config.virtual_hosts, <<>>, plugins.map,
                                DOMAIN plugins.map, rls_enabled,
                                plugins.errors)
  IN [rds_update |->
        [cluster_specifier_plugin_map |->
           Erase(plugins.map, PluginsToErase(hosts.not_seen)),
         virtual_hosts |-> hosts.virtual_hosts],
      errors |-> hosts.errors]

\* ---------------------------------------- XdsRouteConfigResourceType::Decode
Serialize(route_config) == [well_formed |-> TRUE, message |-> route_config]

\* envoy_config_route_v3_RouteConfiguration_parse: nullptr for bytes that
\* are not a RouteConfiguration, else the message.
RouteConfiguration_parse(bytes) ==
  IF bytes.well_formed THEN [null |-> FALSE, message |-> bytes.message]
  ELSE [null |-> TRUE]

CantParse == "Can't parse RouteConfiguration resource."
ErrorsValidating == "errors validating RouteConfiguration resource"

\* absl::InvalidArgumentError and ValidationErrors::status.
InvalidArgument(message, errors) ==
  [ok |-> FALSE, code |-> "INVALID_ARGUMENT", message |-> message,
   errors |-> errors]

\* Mutant: a resource with validation errors is returned all the same.
ErrorsOk_Always(errors) == TRUE

\* ValidationErrors::ok()
ErrorsOk(errors) == errors = <<>>

\* Mutant: the name is set only for a resource that validated.
ResultName_OnlyValid(resource, errors) ==
  IF errors = <<>> THEN [has_value |-> TRUE, value |-> resource.name]
  ELSE [has_value |-> FALSE]

\* result.name of a resource that parsed, set before validation.
ResultName(resource, errors) == [has_value |-> TRUE, value |-> resource.name]

\* What Decode returns for a resource that parsed, given what
\* XdsRouteConfigResourceParse returned; rds_update and errors are the
\* locals of Decode at that point.
DecodeReturn(resource, parsed) ==
  [returned |-> TRUE,
   name |-> ResultName(resource.message, parsed.errors),
   resource |-> IF ErrorsOk(parsed.errors)
                THEN [ok |-> TRUE, value |-> parsed.rds_update]
                ELSE InvalidArgument(ErrorsValidating, parsed.errors),
   rds_update |-> parsed.rds_update,
   errors |-> parsed.errors]

Decode(bytes, rls_enabled) ==
  LET resource == RouteConfiguration_parse(bytes)
  IN IF resource.null
     THEN [returned |-> TRUE, name |-> [has_value |-> FALSE],
           resource |-> InvalidArgument(CantParse, <<>>)]
     ELSE DecodeReturn(resource,
                       XdsRouteConfigResourceParse(resource.message,
                                                   rls_enabled))

\* ---------------------------------------------------------------- inputs
PluginNames == {"p1", "p2"}

ClusterSpecifierPluginProtos ==
  {[name |-> "", extension |-> "absent", is_optional |-> FALSE]}
  \cup {[name |-> n, extension |-> "supported", is_optional |-> FALSE] :
          n \in PluginNames}
  \cup {[name |-> "p1", extension |-> "unsupported", is_optional |-> o] :
          o \in BOOLEAN}

ClusterAction(name) == [kind |-> "cluster", name |-> name, clusters |-> <<>>]
PluginAction(name) ==
  [kind |-> "cluster_specifier_plugin", name |-> name, clusters |-> <<>>]
WeightedAction(clusters) ==
  [kind |-> "weighted_clusters", name |-> "", clusters |-> clusters]

RouteProtos ==
  {[match |-> "ok", route |-> a] :
     a \in {ClusterAction("c1"), ClusterAction("")}
           \cup {PluginAction(n) : n \in PluginNames}}
  \cup {[match |-> "absent", route |-> PluginAction("p1")]}

\* The virtual hosts 1..n that hold the routes of a list of
\* <<virtual host, route>> pairs, in the order of the list.
VirtualHostsOf(tagged, n) ==
  [v \in 1..n |->
     LET mine == SelectSeq(tagged, LAMBDA t : t[1] = v)
     IN [domains |-> <<ValidDomain>>,
         routes |-> [i \in 1..Len(mine) |-> mine[i][2]]]]

VirtualHostLists ==
  {VirtualHostsOf(tagged, n) :
     tagged \in SeqsUpTo((1..MaxVirtualHosts) \X RouteProtos, MaxRoutes),
     n \in 0..MaxVirtualHosts}
  \cup {<<[domains |-> d, routes |-> <<>>]>> :
          d \in {<<>>, <<InvalidDomain>>}}

RouteConfigurations ==
  {[name |-> "route_config", cluster_specifier_plugins |-> plugins,
    virtual_hosts |-> hosts] :
     plugins \in SeqsUpTo(ClusterSpecifierPluginProtos, MaxPlugins),
     hosts \in VirtualHostLists}

SerializedResources ==
  {Malformed} \cup {Serialize(rc) : rc \in RouteConfigurations}

WeightValues ==
  {Uint32(0, 0), Uint32(0, 1), Uint32(2 ^ 15, 0), Uint32Max}

ClusterWeightProtos ==
  {[name |-> n, weight |-> w] :
     n \in {"", "c1"},
     w \in {NoWeight} \cup {UInt32Value(v) : v \in WeightValues}}

RouteActionProtos ==
  {WeightedAction(clusters) :
     clusters \in SeqsUpTo(ClusterWeightProtos, MaxClusters)}
  \cup {ClusterAction("c1"), PluginAction("p1"), OtherAction}

\* --------------------------------------------------------- specifications
\* One call of XdsRouteConfigResourceType::Decode on the serialized resource.
CallDecode ==
  /\ ~decode_result.returned
  /\ decode_result' = Decode(serialized_resource, xds_rls_enabled)
  /\ UNCHANGED <<xds_rls_enabled, serialized_resource, route_action_proto,
                 route_action>>
  /\ UNCHANGED <<handshakeVars, surfaceVars>>

InitDecode ==
  /\ InitIdle
  /\ xds_rls_enabled \in BOOLEAN
  /\ serialized_resource \in SerializedResources
  /\ decode_result = NotReturned
  /\ route_action_proto = OtherAction
  /\ route_action = NotReturned

NextDecode == CallDecode

SpecDecode == InitDecode /\ [][NextDecode]_vars

\* One call of RouteActionParse on a RouteAction proto, with no cluster
\* specifier plugins configured and no errors recorded before.
CallRouteActionParse ==
  /\ ~route_action.returned
  /\ route_action' =
       [returned |-> TRUE,
        result |-> RouteActionParse(route_action_proto, EmptyMap,
                                    xds_rls_enabled, <<>>)]
  /\ UNCHANGED <<xds_rls_enabled, serialized_resource, decode_result,
                 route_action_proto>>
  /\ UNCHANGED <<handshakeVars, surfaceVars>>

InitRouteAction ==
  /\ InitIdle
  /\ xds_rls_enabled \in BOOLEAN
  /\ serialized_resource = Malformed
  /\ decode_result = NotReturned
  /\ route_action_proto \in RouteActionProtos
  /\ route_action = NotReturned

NextRouteAction == CallRouteActionParse

SpecRouteAction == InitRouteAction /\ [][NextRouteAction]_vars

\* ------------------------------------------------ claims on the xDS parser
\* C36: Decode returns an error status exactly when the bytes are not a
\* RouteConfiguration or XdsRouteConfigResourceParse recorded an error;
\* otherwise it returns the resource that function built; the name is set
\* whenever the bytes parsed, with or without validation errors.
C36_DecodeErrorIffInvalid ==
  decode_result.returned =>
    IF ~serialized_resource.well_formed
    THEN /\ ~decode_result.resource.ok
         /\ ~decode_result.name.has_value
    ELSE /\ ~decode_result.resource.ok <=> decode_result.errors # <<>>
         /\ decode_result.resource.ok =>
              decode_result.resource.value = decode_result.rds_update
         /\ decode_result.name.has_value
         /\ decode_result.name.value = serialized_resource.message.name

\* A resource with a validation error was decoded: error status, name set.
C36_Witness ==
  /\ decode_result.returned
  /\ serialized_resource.well_formed
  /\ ~decode_result.resource.ok
  /\ decode_result.resource.errors = <<FieldNotPresent>>
  /\ decode_result.name.has_value

\* A valid resource with a route was decoded.
C36_WitnessValid ==
  /\ decode_result.returned
  /\ decode_result.resource.ok
  /\ Len(decode_result.resource.value.virtual_hosts) = 1
  /\ Len(decode_result.resource.value.virtual_hosts[1].routes) = 2

\* Unparsable bytes were decoded.
C36_WitnessMalformed ==
  /\ decode_result.returned
  /\ ~serialized_resource.well_formed

\* The plugin names that the kept routes of an update name in a
\* ClusterSpecifierPluginName action.
ReferencedPlugins(update) ==
  UNION {LET routes == update.virtual_hosts[v].routes
         IN {routes[i].action.name :
               i \in {j \in 1..Len(routes) :
                        routes[j].action.kind = "ClusterSpecifierPluginName"}} :
         v \in 1..Len(update.virtual_hosts)}

\* C37: when XdsRouteConfigResourceParse has returned, every name left in
\* cluster_specifier_plugin_map is the plugin name of the action of a route
\* kept in some virtual host of the update.
C37_RemainingPluginsReferenced ==
  (decode_result.returned /\ serialized_resource.well_formed) =>
    DOMAIN decode_result.rds_update.cluster_specifier_plugin_map
      \subseteq ReferencedPlugins(decode_result.rds_update)

\* Two plugins were configured, the only kept route names p1: p2 was erased.
C37_Witness ==
  /\ decode_result.returned
  /\ serialized_resource.well_formed
  /\ xds_rls_enabled
  /\ Len(serialized_resource.message.cluster_specifier_plugins) = 2
  /\ \A i \in 1..2 :
       serialized_resource.message.cluster_specifier_plugins[i].extension =
         "supported"
  /\ decode_result.resource.ok
  /\ DOMAIN decode_result.rds_update.cluster_specifier_plugin_map = {"p1"}

\* A route that names p1 was dropped for its missing match, so p1 was
\* erased although a route proto names it.
C37_WitnessDroppedRoute ==
  /\ decode_result.returned
  /\ serialized_resource.well_formed
  /\ xds_rls_enabled
  /\ serialized_resource.message.cluster_specifier_plugins =
       <<[name |-> "p1", extension |-> "supported", is_optional |-> FALSE]>>
  /\ Len(serialized_resource.message.virtual_hosts) = 1
  /\ serialized_resource.message.virtual_hosts[1].routes =
       <<[match |-> "absent", route |-> PluginAction("p1")]>>
  /\ DOMAIN decode_result.rds_update.cluster_specifier_plugin_map = {}

RECURSIVE SumLimb(_, _)
\* The sum of limb i of the values of a sequence.
SumLimb(ws, i) == IF ws = <<>> THEN 0 ELSE Head(ws)[i] + SumLimb(Tail(ws), i)

\* The clusters of a weighted_clusters proto that are not of weight 0.
ExpectedClusters(clusters) ==
  SelectSeq(clusters,
            LAMBDA c : ~c.weight.present \/ ~IsZero(c.weight.value))

\* The weights the retained clusters carry.
RetainedWeights(clusters) ==
  LET weighted == SelectSeq(ExpectedClusters(clusters),
                            LAMBDA c : c.weight.present)
  IN [i \in 1..Len(weighted) |-> weighted[i].weight.value]

\* The sum of a sequence of 32-bit values, in units of 2^16 above the low
\* limb: the sum is (high * 2^16 + low) with low < 2^16.
SumHigh(ws) == SumLimb(ws, 2) + (SumLimb(ws, 1) \div LimbBase)
SumLow(ws) == SumLimb(ws, 1) % LimbBase

\* C38: the result of a weighted_clusters action holds the clusters of the
\* proto that are not of weight 0, in order (a cluster without a weight
\* field is retained and carries no weight); "no valid clusters specified"
\* is recorded exactly when the result is empty; otherwise "sum of cluster
\* weights exceeds uint32 max" is recorded exactly when the sum of the
\* retained weights is at least 2^32; total_weight is that sum, unwrapped.
C38_WeightedClusters ==
  (route_action.returned /\ route_action_proto.kind = "weighted_clusters") =>
    LET expected == ExpectedClusters(route_action_proto.clusters)
        weights == RetainedWeights(route_action_proto.clusters)
        out == route_action.result.action.clusters
        errors == Range(route_action.result.errors)
        total == route_action.result.total_weight
    IN /\ Len(out) = Len(expected)
       /\ \A i \in 1..Len(out) :
            /\ out[i].name = expected[i].name
            /\ out[i].weight =
                 (IF expected[i].weight.present
                  THEN Assigned(expected[i].weight.value) ELSE Unassigned)
            /\ out[i].weight.assigned => ~IsZero(out[i].weight.value)
       /\ NoValidClusters \in errors <=> out = <<>>
       /\ SumExceedsUint32Max \in errors <=>
            (out # <<>> /\ SumHigh(weights) >= LimbBase)
       /\ total = <<SumLow(weights), SumHigh(weights) % LimbBase,
                    SumHigh(weights) \div LimbBase, 0>>

\* Weights 2^32 - 1, 0 and 1: the middle cluster was dropped and the sum of
\* the other two is 2^32.
C38_Witness ==
  /\ route_action.returned
  /\ route_action_proto.kind = "weighted_clusters"
  /\ Len(route_action_proto.clusters) = 3
  /\ route_action_proto.clusters[1].weight = UInt32Value(Uint32Max)
  /\ route_action_proto.clusters[2].weight = UInt32Value(Uint32(0, 0))
  /\ route_action_proto.clusters[3].weight = UInt32Value(Uint32(0, 1))
  /\ Len(route_action.result.action.clusters) = 2
  /\ SumExceedsUint32Max \in Range(route_action.result.errors)
  /\ route_action.result.total_weight = <<0, 0, 1, 0>>

\* Every cluster of the proto had weight 0.
C38_WitnessNoneRetained ==
  /\ route_action.returned
  /\ route_action_proto.kind = "weighted_clusters"
  /\ Len(route_action_proto.clusters) = 2
  /\ route_action.result.action.clusters = <<>>
  /\ NoValidClusters \in Range(route_action.result.errors)

\* The sum is exactly 2^32 - 1: no error.
C38_WitnessAtLimit ==
  /\ route_action.returned
  /\ route_action_proto.kind = "weighted_clusters"
  /\ route_action.result.total_weight =
       Convert(Uint32Max, Limbs(Uint64Bits))
  /\ route_action.result.errors = <<>>
====
